---------------------------- MODULE Spec2Model ----------------------------
(***************************************************************************)
(* LwMEM - lightweight dynamic memory manager.                             *)
(*                                                                         *)
(* The region memory is kept as an array of machine words; a block header  *)
(* is two words (next, size) stored in-band, exactly where the C code      *)
(* stores it.  Byte-granular library calls (memset/memcpy/memmove) are     *)
(* computed on the little-endian bytes of those words.  All size_t and     *)
(* pointer arithmetic is modulo 2^SizeBits.                                *)
(***************************************************************************)
EXTENDS Integers, Sequences, FiniteSets, TLC

VARIABLES mem,    \* region backing memory, word index -> word value
          lw,     \* the lwmem_t instance (the default one where there are two)
          cfg,    \* build-time configuration of the library
          regs,   \* region list handed to the successful lwmem_assignmem_ex
          live,   \* payload pointers the application currently owns
          pre,    \* [mem, lw, live] as they were before the last call
          last,   \* the last public call: operation, arguments, result
          fault,  \* the last call left the defined behaviour of C
          calls,  \* number of steps the application has taken
          thr,    \* where each thread stands in its public call
          lwobj,  \* the instance argument of the last call
          other,  \* the application's own instance: [lw, regs, live]
          serial  \* [mem, lw] had the threads' calls run one after another;
                  \* where two runs are compared, the second run

vars == <<mem, lw, cfg, regs, live, pre, last, fault, calls, thr, lwobj, other, serial>>

(***************************************************************************)
(* Platform and configuration.  size_t and pointers are SizeBits wide.  A  *)
(* value v of that width is held as the two's-complement integer: v itself *)
(* below 2^(SizeBits-1), v - 2^SizeBits from there on, so the most         *)
(* significant bit is the sign.  Add, Sub and the U.. comparisons are the  *)
(* unsigned machine operations on that representation.                     *)
(***************************************************************************)
SizeBits == 32
MaxInt == (2 ^ (SizeBits - 2) - 1) * 2 + 1
MinInt == (-MaxInt) - 1
PtrBytes == SizeBits \div 8
NULL == 0

\* (a + b) modulo 2^SizeBits
Add(a, b) ==
    IF a >= 0 /\ b >= 0 /\ a > MaxInt - b THEN ((a - (MaxInt - b)) - 1) + MinInt
    ELSE IF a < 0 /\ b < 0 /\ a < MinInt - b THEN (a - MinInt) + (b - MinInt)
    ELSE a + b

Neg(b) == IF b = MinInt THEN MinInt ELSE -b

\* (a - b) modulo 2^SizeBits
Sub(a, b) == Add(a, Neg(b))

\* (a * b) modulo 2^SizeBits: shift and add over the bits of b
BitOf(b, i) == IF i = SizeBits - 1 THEN b < 0 ELSE (b \div (2 ^ i)) % 2 = 1

RECURSIVE MulLoop(_, _, _, _)
MulLoop(a, b, i, acc) ==
    IF i = SizeBits THEN acc
    ELSE MulLoop(Add(a, a), b, i + 1, IF BitOf(b, i) THEN Add(acc, a) ELSE acc)

Mul(a, b) == MulLoop(a, b, 0, 0)

\* unsigned comparisons
ULt(a, b) == IF (a < 0) = (b < 0) THEN a < b ELSE b < 0
ULe(a, b) == a = b \/ ULt(a, b)
UGe(a, b) == ~ULt(a, b)
UGt(a, b) == ULt(b, a)

LWMEM_CFG_ALIGN_NUM == 4
LWMEM_ALIGN_BITS == LWMEM_CFG_ALIGN_NUM - 1

\* x & ~LWMEM_ALIGN_BITS
AlignDown(x) == x - (x % LWMEM_CFG_ALIGN_NUM)

LWMEM_ALIGN(x) == AlignDown(Add(x, LWMEM_ALIGN_BITS))

\* sizeof(lwmem_block_t): a pointer followed by a size_t
SizeofBlock == 2 * PtrBytes

LWMEM_BLOCK_META_SIZE == LWMEM_ALIGN(SizeofBlock)

\* 1 << (sizeof(size_t) * CHAR_BIT - 1)
LWMEM_ALLOC_BIT == MinInt

\* 0xDEADBEEF
LWMEM_BLOCK_ALLOC_MARK == -559038737

LWMEM_BLOCK_MIN_SIZE == LWMEM_BLOCK_META_SIZE

\* s & LWMEM_ALLOC_BIT, s & ~LWMEM_ALLOC_BIT, s | LWMEM_ALLOC_BIT
HasAllocBit(s) == s < 0
ClearAllocBit(s) == IF s < 0 THEN (s + MaxInt) + 1 ELSE s
SetAllocBit(s) == IF s < 0 THEN s ELSE s + MinInt

(***************************************************************************)
(* Memory                                                                  *)
(***************************************************************************)
\* the entry that ends a region array
Terminator == [start_addr |-> NULL, size |-> 0]

\* the byte arrays the application hands over: an unaligned first region and
\* a second one that starts where the first ends
RegionsMain ==
    << [start_addr |-> 6, size |-> 42], [start_addr |-> 48, size |-> 24], Terminator >>

\* two longer regions: the first holds three smallest blocks, the second
\* a block that the first cannot hold beside two others
RegionsTall ==
    << [start_addr |-> 6, size |-> 46], [start_addr |-> 52, size |-> 32], Terminator >>

\* the memory ends one word after the last region
MemBytes == RegionsTall[2].start_addr + RegionsTall[2].size + PtrBytes
MemWords == MemBytes \div PtrBytes

\* &lwobj->start_block: the instance lives outside every region
StartBlockAddr == MemBytes + 4 * PtrBytes

InMem(a) == a >= 0 /\ a < MemBytes
\* a pointer that may be dereferenced: inside the memory, aligned, not NULL
Mapped(a) == InMem(a) /\ a # NULL /\ a % PtrBytes = 0

\* byte k of a word, little endian
ByteOf(w, k) == (w \div (256 ^ k)) % 256

\* the word made of four bytes
WordOf(b0, b1, b2, b3) ==
    b0 + 256 * b1 + 65536 * b2 + 16777216 * (IF b3 >= 128 THEN b3 - 256 ELSE b3)
ByteAt(m, x) == ByteOf(m[x \div PtrBytes], x % PtrBytes)

\* a word read through a pointer; the calls are only taken where every
\* pointer they follow is mapped (see DefinedList, DefinedWalk)
Rd(H, a) == IF Mapped(a) THEN H.mem[a \div PtrBytes] ELSE 0

Wr(H, a, v) ==
    IF Mapped(a)
    THEN [H EXCEPT !.mem[a \div PtrBytes] = v]
    ELSE [H EXCEPT !.oob = TRUE]

BlkNext(H, b) == IF b = StartBlockAddr THEN H.lw.start_block.next ELSE Rd(H, b)
BlkSize(H, b) ==
    IF b = StartBlockAddr THEN H.lw.start_block.size ELSE Rd(H, b + PtrBytes)

SetNext(H, b, v) ==
    IF b = StartBlockAddr
    THEN [H EXCEPT !.lw.start_block.next = v]
    ELSE Wr(H, b, v)

SetSize(H, b, v) ==
    IF b = StartBlockAddr
    THEN [H EXCEPT !.lw.start_block.size = v]
    ELSE Wr(H, b + PtrBytes, v)

\* rebuild every word touched by a byte range [dst, dst + n) from newbyte
StoreBytes(H, dst, n, newbyte(_)) ==
    IF n = 0 THEN H
    ELSE IF ~(n > 0 /\ InMem(dst) /\ n <= MemBytes - dst) THEN [H EXCEPT !.oob = TRUE]
    ELSE LET NewWord(w) ==
                 LET B(k) == IF w * PtrBytes + k >= dst /\ w * PtrBytes + k < dst + n
                             THEN newbyte(w * PtrBytes + k)
                             ELSE ByteOf(H.mem[w], k)
                 IN  WordOf(B(0), B(1), B(2), B(3))
         IN  [H EXCEPT !.mem =
                 [w \in DOMAIN H.mem |->
                     IF (w + 1) * PtrBytes > dst /\ w * PtrBytes < dst + n
                     THEN NewWord(w) ELSE H.mem[w]]]

LWMEM_MEMSET(H, dst, val, n) ==
    LET nb(x) == val IN StoreBytes(H, dst, n, nb)

\* memmove: the bytes are taken from the memory as it was before the call
LWMEM_MEMMOVE(H, dst, src, n) ==
    IF n = 0 THEN H
    ELSE IF ~(n > 0 /\ InMem(src) /\ n <= MemBytes - src) THEN [H EXCEPT !.oob = TRUE]
    ELSE LET nb(x) == ByteAt(H.mem, src + (x - dst)) IN StoreBytes(H, dst, n, nb)

\* memcpy: overlapping source and destination are undefined
LWMEM_MEMCPY(H, dst, src, n) ==
    IF n > 0 /\ InMem(src) /\ InMem(dst) /\ n <= MemBytes /\ dst < src + n /\ src < dst + n
    THEN [H EXCEPT !.oob = TRUE]
    ELSE LWMEM_MEMMOVE(H, dst, src, n)

(***************************************************************************)
(* Private functions of lwmem.c.  H is the machine state a function works  *)
(* on: [mem, lw, cfg, oob]; oob records a store outside the mapped memory. *)
(* A sequence of C statements is the nesting of the operators that model   *)
(* the statements, innermost first.                                        *)
(***************************************************************************)
WalkFuel == MemWords + 2

LWMEM_INC_STATS(H, field) ==
    IF H.cfg.stats THEN [H EXCEPT !.lw.stats[field] = Add(@, 1)] ELSE H

LWMEM_UPDATE_MIN_FREE(H) ==
    IF H.cfg.stats
       /\ ULt(H.lw.mem_available_bytes, H.lw.stats.minimum_ever_mem_available_bytes)
    THEN [H EXCEPT !.lw.stats.minimum_ever_mem_available_bytes = H.lw.mem_available_bytes]
    ELSE H

LWMEM_BLOCK_IS_ALLOC(H, block) ==
    /\ block # NULL
    /\ HasAllocBit(BlkSize(H, block))
    /\ BlkNext(H, block) = LWMEM_BLOCK_ALLOC_MARK

LWMEM_GET_BLOCK_FROM_PTR(ptr) ==
    IF ptr # NULL THEN Sub(ptr, LWMEM_BLOCK_META_SIZE) ELSE NULL

LWMEM_GET_PTR_FROM_BLOCK(block) ==
    IF block # NULL THEN Add(block, LWMEM_BLOCK_META_SIZE) ELSE NULL

\* p->next->size, p->next->next and the stores to them
NextSize(H, p) == BlkSize(H, BlkNext(H, p))
NextNext(H, p) == BlkNext(H, BlkNext(H, p))
SetNextSize(H, p, v) == SetSize(H, BlkNext(H, p), v)
SetNextNext(H, p, v) == SetNext(H, BlkNext(H, p), v)

\* lwobj->mem_available_bytes += n, -= n
AvailAdd(H, n) == [H EXCEPT !.lw.mem_available_bytes = Add(@, n)]
AvailSub(H, n) == [H EXCEPT !.lw.mem_available_bytes = Sub(@, n)]

\* for (pp = NULL, p = &start_block; p != NULL && p->next < in_b; pp = p, p = p->next)
RECURSIVE PrevCurrLoop(_, _, _, _, _)
PrevCurrLoop(H, pp, p, in_b, fuel) ==
    IF p # NULL /\ fuel > 0 /\ ULt(BlkNext(H, p), in_b)
    THEN PrevCurrLoop(H, p, BlkNext(H, p), in_b, fuel - 1)
    ELSE [pp |-> pp, p |-> p]

prv_get_prev_curr_of_block(H, in_b) ==
    PrevCurrLoop(H, NULL, StartBlockAddr, in_b, WalkFuel)

\* the block marked by the alloc bit of its size only
prv_block_set_alloc_bit(H, block) ==
    IF block # NULL THEN SetSize(H, block, SetAllocBit(BlkSize(H, block))) ELSE H

prv_block_set_alloc(H, block) ==
    IF block # NULL
    THEN SetNext(SetSize(H, block, SetAllocBit(BlkSize(H, block))),
                 block, LWMEM_BLOCK_ALLOC_MARK)
    ELSE H

prv_get_region_addr_size(region) ==
    LET aligned == region.start_addr % LWMEM_CFG_ALIGN_NUM = 0
        mem_start_addr ==
            IF aligned THEN region.start_addr
            ELSE Add(region.start_addr,
                     LWMEM_CFG_ALIGN_NUM - (region.start_addr % LWMEM_CFG_ALIGN_NUM))
        mem_size0 ==
            IF aligned THEN region.size
            ELSE Sub(region.size, Sub(mem_start_addr, region.start_addr))
        mem_size == AlignDown(mem_size0)
    IN  IF ULt(mem_size, 2 * LWMEM_BLOCK_MIN_SIZE)
        THEN [ok |-> 0, msa |-> NULL, msz |-> 0]
        ELSE [ok |-> 1, msa |-> mem_start_addr, msz |-> mem_size]

\* the inserted block with its payload left as it is
InsertKept(H, nblk) == H

\* #if LWMEM_CFG_CLEAN_MEMORY: the payload of the inserted block is zeroed
InsertClean(H, nblk) ==
    IF H.cfg.clean /\ LWMEM_GET_PTR_FROM_BLOCK(nblk) # NULL
    THEN LWMEM_MEMSET(H, LWMEM_GET_PTR_FROM_BLOCK(nblk), 0,
                      Sub(BlkSize(H, nblk), LWMEM_BLOCK_META_SIZE))
    ELSE H

\* if (prev + prev->size == nblk) { prev->size += nblk->size; nblk = prev; }
InsertJoinsPrev(H, prev, nblk) == Add(prev, BlkSize(H, prev)) = nblk
InsertJoinPrev(H, prev, nblk) ==
    IF InsertJoinsPrev(H, prev, nblk)
    THEN SetSize(H, prev, Add(BlkSize(H, prev), BlkSize(H, nblk)))
    ELSE H

\* the second if/else of prv_insert_free_block: nblk->next, merged with the
\* block after it when that one is adjacent and no end marker
InsertSetNext(H, prev, nblk) ==
    IF /\ BlkNext(H, prev) # NULL
       /\ NextSize(H, prev) # 0
       /\ Add(nblk, BlkSize(H, nblk)) = BlkNext(H, prev)
    THEN IF BlkNext(H, prev) = H.lw.end_block
         THEN SetNext(H, nblk, H.lw.end_block)
         ELSE SetNext(SetSize(H, nblk, Add(BlkSize(H, nblk), NextSize(H, prev))),
                      nblk, NextNext(H, prev))
    ELSE SetNext(H, nblk, BlkNext(H, prev))

\* if (prev != nblk) prev->next = nblk;
InsertLink(H, prev, nblk) == IF prev # nblk THEN SetNext(H, prev, nblk) ELSE H

\* prv_insert_free_block once prev is found and the payload cleaned
InsertAt(H, prev, nblk) ==
    IF InsertJoinsPrev(H, prev, nblk)
    THEN InsertLink(InsertSetNext(InsertJoinPrev(H, prev, nblk), prev, prev), prev, prev)
    ELSE InsertLink(InsertSetNext(H, prev, nblk), prev, nblk)

InsertFrom(H, prev, nblk) ==
    IF prev = NULL THEN H ELSE InsertAt(InsertClean(H, nblk), prev, nblk)

prv_insert_free_block(H, nblk) ==
    IF nblk = NULL THEN H
    ELSE InsertFrom(H, PrevCurrLoop(H, NULL, StartBlockAddr, nblk, WalkFuel).p, nblk)

\* the then-branch of prv_split_too_big_block, next = block + new_block_size
SplitOff(H, block, new_block_size, block_size, next) ==
    prv_insert_free_block(
        AvailAdd(SetSize(SetSize(H, next, Sub(block_size, new_block_size)),
                         block, new_block_size),
                 BlkSize(SetSize(SetSize(H, next, Sub(block_size, new_block_size)),
                                 block, new_block_size), next)),
        next)

\* if (is_alloc_bit) prv_block_set_alloc(block);
SplitRestore(H, block, is_alloc_bit) ==
    IF is_alloc_bit THEN prv_block_set_alloc(H, block) ELSE H

SplitSized(H, block, new_block_size, block_size, is_alloc_bit) ==
    IF UGe(Sub(block_size, new_block_size), LWMEM_BLOCK_MIN_SIZE)
    THEN [H |-> SplitRestore(SplitOff(H, block, new_block_size, block_size,
                                      Add(block, new_block_size)),
                             block, is_alloc_bit),
          success |-> 1]
    ELSE [H |-> SplitRestore(H, block, is_alloc_bit), success |-> 0]

prv_split_too_big_block(H, block, new_block_size) ==
    SplitSized(H, block, new_block_size,
               ClearAllocBit(BlkSize(H, block)), HasAllocBit(BlkSize(H, block)))

\* for (; curr != NULL && curr->size < final_size; prev = curr, curr = curr->next)
\*     if (curr->next == NULL || curr == end_block) return NULL;
RECURSIVE AllocLoopAny(_, _, _, _, _)
AllocLoopAny(H, prev, curr, final_size, fuel) ==
    IF curr # NULL /\ fuel > 0 /\ ULt(BlkSize(H, curr), final_size)
    THEN IF BlkNext(H, curr) = NULL \/ curr = H.lw.end_block
         THEN [prev |-> prev, curr |-> NULL]
         ELSE AllocLoopAny(H, curr, BlkNext(H, curr), final_size, fuel - 1)
    ELSE [prev |-> prev, curr |-> curr]

\* the scan of prv_alloc for a request pinned to one region
RECURSIVE AllocLoopRegion(_, _, _, _, _, _, _)
AllocLoopRegion(H, prev, curr, final_size, region_start_addr, region_size, fuel) ==
    IF curr # NULL /\ fuel > 0
    THEN IF BlkNext(H, curr) = NULL \/ curr = H.lw.end_block
         THEN [prev |-> prev, curr |-> NULL]
         ELSE IF ULt(curr, region_start_addr)
         THEN AllocLoopRegion(H, curr, BlkNext(H, curr), final_size,
                              region_start_addr, region_size, fuel - 1)
         ELSE IF UGe(curr, Add(region_start_addr, region_size))
         THEN [prev |-> prev, curr |-> NULL]
         ELSE IF UGe(BlkSize(H, curr), final_size)
         THEN [prev |-> prev, curr |-> curr]
         ELSE AllocLoopRegion(H, curr, BlkNext(H, curr), final_size,
                              region_start_addr, region_size, fuel - 1)
    ELSE [prev |-> prev, curr |-> curr]

\* prev->next = curr->next; lwobj->mem_available_bytes -= curr->size;
AllocUnlink(H, prev, curr) ==
    AvailSub(SetNext(H, prev, BlkNext(H, curr)),
             BlkSize(SetNext(H, prev, BlkNext(H, curr)), curr))

\* the end of prv_alloc, from "if (curr == NULL)" on
AllocTake(H, prev, curr, final_size) ==
    IF curr = NULL THEN [H |-> H, ret |-> NULL]
    ELSE [H |-> LWMEM_INC_STATS(
                    LWMEM_UPDATE_MIN_FREE(
                        prv_block_set_alloc(
                            prv_split_too_big_block(AllocUnlink(H, prev, curr),
                                                    curr, final_size).H,
                            curr)),
                    "nr_alloc"),
          ret |-> LWMEM_GET_PTR_FROM_BLOCK(curr)]

AllocFound(H, found, final_size) == AllocTake(H, found.prev, found.curr, final_size)

AllocPinned(H, rg, final_size) ==
    IF rg.ok = 0 THEN [H |-> H, ret |-> NULL]
    ELSE AllocFound(H,
                    AllocLoopRegion(H, StartBlockAddr, BlkNext(H, StartBlockAddr),
                                    final_size, rg.msa, rg.msz, WalkFuel),
                    final_size)

AllocSized(H, region, final_size) ==
    IF \/ H.lw.end_block = NULL
       \/ final_size = LWMEM_BLOCK_META_SIZE
       \/ HasAllocBit(final_size)
    THEN [H |-> H, ret |-> NULL]
    ELSE IF region # <<>>
    THEN AllocPinned(H, prv_get_region_addr_size(region[1]), final_size)
    ELSE AllocFound(H,
                    AllocLoopAny(H, StartBlockAddr, BlkNext(H, StartBlockAddr),
                                 final_size, WalkFuel),
                    final_size)

\* region is <<>> for a NULL region pointer, <<descriptor>> otherwise
prv_alloc(H, region, size) ==
    AllocSized(H, region, Add(LWMEM_ALIGN(size), LWMEM_BLOCK_META_SIZE))

\* block->size &= ~LWMEM_ALLOC_BIT; lwobj->mem_available_bytes += block->size;
FreeAccount(H, block) ==
    AvailAdd(SetSize(H, block, ClearAllocBit(BlkSize(H, block))),
             ClearAllocBit(BlkSize(H, block)))

\* prv_free that takes every block other than NULL for allocated
prv_free_unchecked(H, ptr) ==
    IF LWMEM_GET_BLOCK_FROM_PTR(ptr) # NULL
    THEN LWMEM_INC_STATS(
             prv_insert_free_block(FreeAccount(H, LWMEM_GET_BLOCK_FROM_PTR(ptr)),
                                   LWMEM_GET_BLOCK_FROM_PTR(ptr)),
             "nr_free")
    ELSE H

prv_free(H, ptr) ==
    IF LWMEM_BLOCK_IS_ALLOC(H, LWMEM_GET_BLOCK_FROM_PTR(ptr))
    THEN LWMEM_INC_STATS(
             prv_insert_free_block(FreeAccount(H, LWMEM_GET_BLOCK_FROM_PTR(ptr)),
                                   LWMEM_GET_BLOCK_FROM_PTR(ptr)),
             "nr_free")
    ELSE H

\* shrink, the free block after the block is adjacent: it is moved down by
\* diff = block_size - final_size bytes and the block shortened
ReallocShrinkNext(H, block, prev, diff, final_size, tmp_size, tmp_next) ==
    SetSize(AvailAdd(SetNextNext(SetNextSize(SetNext(H, prev, Sub(BlkNext(H, prev), diff)),
                                             prev, Add(tmp_size, diff)),
                                 prev, tmp_next),
                     diff),
            block, final_size)

\* ReallocShrinkSmall without the prv_block_set_alloc(block) that follows
\* block->size = final_size
ReallocShrinkSmallUnset(H, ptr, block, block_size, final_size, prev) ==
    IF Add(block, block_size) = BlkNext(H, prev) /\ NextSize(H, prev) # 0
    THEN [H |-> ReallocShrinkNext(H, block, prev, Sub(block_size, final_size),
                                  final_size, NextSize(H, prev), NextNext(H, prev)),
          ret |-> ptr, branch |-> "shrink_next"]
    ELSE [H |-> prv_block_set_alloc(H, block), ret |-> ptr, branch |-> "shrink_keep"]

\* shrink when the tail is too small for a block of its own
ReallocShrinkSmall(H, ptr, block, block_size, final_size, prev) ==
    IF Add(block, block_size) = BlkNext(H, prev) /\ NextSize(H, prev) # 0
    THEN [H |-> prv_block_set_alloc(
                    ReallocShrinkNext(H, block, prev, Sub(block_size, final_size),
                                      final_size, NextSize(H, prev), NextNext(H, prev)),
                    block),
          ret |-> ptr, branch |-> "shrink_next"]
    ELSE [H |-> prv_block_set_alloc(H, block), ret |-> ptr, branch |-> "shrink_keep"]

ReallocShrink(H, ptr, block, block_size, final_size) ==
    IF UGe(Sub(block_size, final_size), LWMEM_BLOCK_MIN_SIZE)
    THEN [H |-> prv_block_set_alloc(prv_split_too_big_block(H, block, final_size).H, block),
          ret |-> ptr, branch |-> "shrink_split"]
    ELSE ReallocShrinkSmall(H, ptr, block, block_size, final_size,
                            prv_get_prev_curr_of_block(H, block).p)

\* the statements of the grow cases, between the test and the split
GrowNextMerge(H, block, block_size, prev) ==
    SetNext(SetSize(H, block, Add(block_size, NextSize(H, prev))),
            prev,
            NextNext(SetSize(H, block, Add(block_size, NextSize(H, prev))), prev))

\* GrowPrevMerge without prevprev->next = prev->next
GrowPrevMergeLinked(H, block_size, prevprev, prev) ==
    SetSize(H, prev, Add(BlkSize(H, prev), block_size))

GrowPrevMerge(H, block_size, prevprev, prev) ==
    SetNext(SetSize(H, prev, Add(BlkSize(H, prev), block_size)),
            prevprev,
            BlkNext(SetSize(H, prev, Add(BlkSize(H, prev), block_size)), prev))

\* GrowBothMerge with prevprev->next = prev->next, which unlinks prev alone
GrowBothMergeOne(H, block_size, prevprev, prev) ==
    SetNext(SetSize(H, prev, Add(BlkSize(H, prev), Add(block_size, NextSize(H, prev)))),
            prevprev,
            BlkNext(SetSize(H, prev,
                            Add(BlkSize(H, prev), Add(block_size, NextSize(H, prev)))),
                    prev))

GrowBothMerge(H, block_size, prevprev, prev) ==
    SetNext(SetSize(H, prev, Add(BlkSize(H, prev), Add(block_size, NextSize(H, prev)))),
            prevprev,
            NextNext(SetSize(H, prev,
                             Add(BlkSize(H, prev), Add(block_size, NextSize(H, prev)))),
                     prev))

\* lwobj->mem_available_bytes -= n; LWMEM_UPDATE_MIN_FREE(lwobj);
GrowAccount(H, n) == LWMEM_UPDATE_MIN_FREE(AvailSub(H, n))

\* prv_split_too_big_block(lwobj, block, final_size); prv_block_set_alloc(block);
GrowFinish(H, block, final_size) ==
    prv_block_set_alloc(prv_split_too_big_block(H, block, final_size).H, block)

ReallocGrowNext(H, ptr, block, block_size, final_size, prev) ==
    [H |-> GrowFinish(GrowNextMerge(GrowAccount(H, NextSize(H, prev)),
                                    block, block_size, prev),
                      block, final_size),
     ret |-> ptr, branch |-> "grow_next"]

\* GrowMoved with the block, not its payload, as destination
GrowMovedToBlock(H, block, block_size, prev) ==
    LWMEM_MEMMOVE(H, prev, LWMEM_GET_PTR_FROM_BLOCK(block), block_size)

GrowMoved(H, block, block_size, prev) ==
    LWMEM_MEMMOVE(H, LWMEM_GET_PTR_FROM_BLOCK(prev), LWMEM_GET_PTR_FROM_BLOCK(block),
                  block_size)

GrowPrevAccount(H, prev) == GrowAccount(H, BlkSize(H, prev))
GrowBothAccount(H, prev) == GrowAccount(H, Add(BlkSize(H, prev), NextSize(H, prev)))

ReallocGrowPrev(H, block, block_size, final_size, prevprev, prev) ==
    [H |-> GrowFinish(GrowPrevMerge(GrowPrevAccount(GrowMoved(H, block, block_size, prev),
                                                    prev),
                                    block_size, prevprev, prev),
                      prev, final_size),
     ret |-> LWMEM_GET_PTR_FROM_BLOCK(prev), branch |-> "grow_prev"]

ReallocGrowBoth(H, block, block_size, final_size, prevprev, prev) ==
    [H |-> GrowFinish(GrowBothMerge(GrowBothAccount(GrowMoved(H, block, block_size, prev),
                                                    prev),
                                    block_size, prevprev, prev),
                      prev, final_size),
     ret |-> LWMEM_GET_PTR_FROM_BLOCK(prev), branch |-> "grow_both"]

\* size > block_size ? block_size : size
MoveLen(size, block_size) == IF UGt(size, block_size) THEN block_size ELSE size

\* ReallocMove without prv_free(lwobj, ptr)
ReallocMoveKeeping(r, ptr, block, size) ==
    IF r.ret # NULL
    THEN [H |-> LWMEM_MEMCPY(r.H, r.ret, ptr,
                             MoveLen(size, Sub(ClearAllocBit(BlkSize(r.H, block)),
                                               LWMEM_BLOCK_META_SIZE))),
          ret |-> r.ret, branch |-> "move"]
    ELSE [H |-> r.H, ret |-> NULL, branch |-> "nofit"]

\* ReallocMove that gives the old block up also when prv_alloc failed
ReallocMoveFreeing(r, ptr, block, size) ==
    IF r.ret # NULL
    THEN [H |-> prv_free(
                    LWMEM_MEMCPY(r.H, r.ret, ptr,
                                 MoveLen(size, Sub(ClearAllocBit(BlkSize(r.H, block)),
                                                   LWMEM_BLOCK_META_SIZE))),
                    ptr),
          ret |-> r.ret, branch |-> "move"]
    ELSE [H |-> prv_free(r.H, ptr), ret |-> NULL, branch |-> "nofit"]

\* the last case: r is the result of prv_alloc(lwobj, region, size)
ReallocMove(r, ptr, block, size) ==
    IF r.ret # NULL
    THEN [H |-> prv_free(
                    LWMEM_MEMCPY(r.H, r.ret, ptr,
                                 MoveLen(size, Sub(ClearAllocBit(BlkSize(r.H, block)),
                                                   LWMEM_BLOCK_META_SIZE))),
                    ptr),
          ret |-> r.ret, branch |-> "move"]
    ELSE [H |-> r.H, ret |-> NULL, branch |-> "nofit"]

\* ReallocGrow that tries the block before ahead of the block after
ReallocGrowPrevFirst(H, region, ptr, size, block, block_size, final_size, prevprev, prev) ==
    IF prev = NULL
    THEN [H |-> H, ret |-> NULL, branch |-> "noprev"]
    ELSE IF /\ Add(prev, BlkSize(H, prev)) = block
            /\ UGe(Add(BlkSize(H, prev), block_size), final_size)
    THEN ReallocGrowPrev(H, block, block_size, final_size, prevprev, prev)
    ELSE IF /\ Add(block, block_size) = BlkNext(H, prev)
            /\ UGe(Add(block_size, NextSize(H, prev)), final_size)
    THEN ReallocGrowNext(H, ptr, block, block_size, final_size, prev)
    ELSE ReallocMove(prv_alloc(H, region, size), ptr, block, size)

ReallocGrow(H, region, ptr, size, block, block_size, final_size, prevprev, prev) ==
    IF prev = NULL
    THEN [H |-> H, ret |-> NULL, branch |-> "noprev"]
    ELSE IF /\ Add(block, block_size) = BlkNext(H, prev)
            /\ UGe(Add(block_size, NextSize(H, prev)), final_size)
    THEN ReallocGrowNext(H, ptr, block, block_size, final_size, prev)
    ELSE IF /\ Add(prev, BlkSize(H, prev)) = block
            /\ UGe(Add(BlkSize(H, prev), block_size), final_size)
    THEN ReallocGrowPrev(H, block, block_size, final_size, prevprev, prev)
    ELSE IF /\ Add(prev, BlkSize(H, prev)) = block
            /\ Add(block, block_size) = BlkNext(H, prev)
            /\ UGe(Add(Add(BlkSize(H, prev), block_size), NextSize(H, prev)), final_size)
    THEN ReallocGrowBoth(H, block, block_size, final_size, prevprev, prev)
    ELSE ReallocMove(prv_alloc(H, region, size), ptr, block, size)

ReallocGrowFrom(H, region, ptr, size, block, block_size, final_size, pc) ==
    ReallocGrow(H, region, ptr, size, block, block_size, final_size, pc.pp, pc.p)

ReallocSized(H, region, ptr, size, block, block_size, final_size) ==
    IF block_size = final_size
    THEN [H |-> H, ret |-> ptr, branch |-> "same"]
    ELSE IF ULt(final_size, block_size)
    THEN ReallocShrink(H, ptr, block, block_size, final_size)
    ELSE ReallocGrowFrom(H, region, ptr, size, block, block_size, final_size,
                         prv_get_prev_curr_of_block(H, block))

ReallocBlock(H, region, ptr, size, block, final_size) ==
    IF ~LWMEM_BLOCK_IS_ALLOC(H, block)
    THEN [H |-> H, ret |-> NULL, branch |-> "invalid"]
    ELSE ReallocSized(H, region, ptr, size, block,
                      ClearAllocBit(BlkSize(H, block)), final_size)

ReallocAlloc(r) == [H |-> r.H, ret |-> r.ret, branch |-> "alloc"]

\* prv_realloc that returns NULL for size 0 without prv_free
prv_realloc_size0_kept(H, region, ptr, size) ==
    IF size = 0
    THEN [H |-> H, ret |-> NULL, branch |-> "size0"]
    ELSE IF ptr = NULL
    THEN ReallocAlloc(prv_alloc(H, region, size))
    ELSE IF \/ HasAllocBit(size)
            \/ HasAllocBit(Add(LWMEM_ALIGN(size), LWMEM_BLOCK_META_SIZE))
    THEN [H |-> H, ret |-> NULL, branch |-> "limit"]
    ELSE ReallocBlock(H, region, ptr, size, LWMEM_GET_BLOCK_FROM_PTR(ptr),
                      Add(LWMEM_ALIGN(size), LWMEM_BLOCK_META_SIZE))

\* The result names the path taken through prv_realloc in "branch".
prv_realloc(H, region, ptr, size) ==
    IF size = 0
    THEN [H |-> IF ptr # NULL THEN prv_free(H, ptr) ELSE H,
          ret |-> NULL, branch |-> "size0"]
    ELSE IF ptr = NULL
    THEN ReallocAlloc(prv_alloc(H, region, size))
    ELSE IF \/ HasAllocBit(size)
            \/ HasAllocBit(Add(LWMEM_ALIGN(size), LWMEM_BLOCK_META_SIZE))
    THEN [H |-> H, ret |-> NULL, branch |-> "limit"]
    ELSE ReallocBlock(H, region, ptr, size, LWMEM_GET_BLOCK_FROM_PTR(ptr),
                      Add(LWMEM_ALIGN(size), LWMEM_BLOCK_META_SIZE))

\* the statements of the loop body of prv_assignmem
AssignStart(H, mem_start_addr) ==
    IF H.lw.end_block = NULL
    THEN [H EXCEPT !.lw.start_block = [next |-> mem_start_addr, size |-> 0]]
    ELSE H

AssignEnd(H, end_block) ==
    SetSize(SetNext([H EXCEPT !.lw.end_block = end_block], end_block, NULL), end_block, 0)

AssignFirst(H, first_block, end_block, size) ==
    SetSize(SetNext(H, first_block, end_block), first_block, size)

AssignChain(H, prev_end_block, first_block) ==
    IF prev_end_block # NULL THEN SetNext(H, prev_end_block, first_block) ELSE H

AssignCount(H, first_block) ==
    [H EXCEPT !.lw.mem_available_bytes = Add(@, BlkSize(H, first_block)),
              !.lw.mem_regions_count = Add(@, 1)]

AssignRegion(H, mem_start_addr, mem_size, prev_end_block) ==
    AssignCount(
        AssignChain(
            AssignFirst(
                AssignEnd(AssignStart(H, mem_start_addr),
                          Add(mem_start_addr, Sub(mem_size, LWMEM_BLOCK_META_SIZE))),
                mem_start_addr,
                Add(mem_start_addr, Sub(mem_size, LWMEM_BLOCK_META_SIZE)),
                Sub(mem_size, LWMEM_BLOCK_META_SIZE)),
            prev_end_block, mem_start_addr),
        mem_start_addr)

\* the loop of prv_assignmem, from regions[idx] on
RECURSIVE AssignLoop(_, _, _)
AssignStep(H, regions, idx, rg) ==
    IF rg.ok = 0 THEN AssignLoop(H, regions, idx + 1)
    ELSE AssignLoop(AssignRegion(H, rg.msa, rg.msz, H.lw.end_block), regions, idx + 1)

AssignLoop(H, regions, idx) ==
    IF ~(regions[idx].size # 0 /\ regions[idx].start_addr # NULL) THEN H
    ELSE AssignStep(H, regions, idx, prv_get_region_addr_size(regions[idx]))

\* #if LWMEM_CFG_ENABLE_STATS
AssignStats(H) ==
    IF H.cfg.stats
    THEN [H EXCEPT !.lw.stats.mem_size_bytes = H.lw.mem_available_bytes,
                   !.lw.stats.minimum_ever_mem_available_bytes = H.lw.mem_available_bytes]
    ELSE H

AssignResult(H) == [H |-> H, ret |-> H.lw.mem_regions_count]

prv_assignmem(H, regions) == AssignResult(AssignStats(AssignLoop(H, regions, 1)))

\* the light build (LWMEM_CFG_FULL == 0): one region, allocation only
SimpleStart(region) ==
    IF region.start_addr % LWMEM_CFG_ALIGN_NUM = 0 THEN region.start_addr
    ELSE Add(region.start_addr,
             LWMEM_CFG_ALIGN_NUM - (region.start_addr % LWMEM_CFG_ALIGN_NUM))

SimpleSize(region) ==
    AlignDown(IF region.start_addr % LWMEM_CFG_ALIGN_NUM = 0 THEN region.size
              ELSE Sub(region.size, Sub(SimpleStart(region), region.start_addr)))

prv_assignmem_simple(H, regions) ==
    [H |-> [H EXCEPT !.lw.mem_available_bytes = SimpleSize(regions[1]),
                     !.lw.mem_next_available_ptr = SimpleStart(regions[1]),
                     !.lw.is_initialized = 1],
     ret |-> 1]

AllocSimple(H, alloc_size) ==
    IF ULe(alloc_size, H.lw.mem_available_bytes)
    THEN [H |-> [H EXCEPT !.lw.mem_next_available_ptr = Add(@, alloc_size),
                          !.lw.mem_available_bytes = Sub(@, alloc_size)],
          ret |-> H.lw.mem_next_available_ptr]
    ELSE [H |-> H, ret |-> NULL]

prv_alloc_simple(H, region, size) == AllocSimple(H, LWMEM_ALIGN(size))

\* the system port: a mutex handle is valid once a mutex was created for it;
\* created is what lwmem_sys_mutex_create returns
lwmem_sys_mutex_isvalid(H) == H.lw.mutex.valid

lwmem_sys_mutex_create(H, created) ==
    IF created THEN [H EXCEPT !.lw.mutex = [valid |-> TRUE, owner |-> 0]] ELSE H

\* the first loop without the comparison of an entry with the one before it
RECURSIVE RegionsLenUnordered(_, _, _, _, _)
RegionsLenUnordered(H, regions, idx, mem_start_addr, mem_size) ==
    IF regions[idx].size = 0 /\ regions[idx].start_addr = NULL THEN idx - 1
    ELSE IF ~H.cfg.full /\ idx > 1 THEN 0
    ELSE RegionsLenUnordered(H, regions, idx + 1,
                             regions[idx].start_addr, regions[idx].size)

\* the first loop of lwmem_assignmem_ex: the number of entries before the
\* terminator, or 0 when an entry starts below the end of the one before it
\* or, in the light build, when there is a second entry
RECURSIVE RegionsLen(_, _, _, _, _)
RegionsLen(H, regions, idx, mem_start_addr, mem_size) ==
    IF regions[idx].size = 0 /\ regions[idx].start_addr = NULL THEN idx - 1
    ELSE IF ~H.cfg.full /\ idx > 1 THEN 0
    ELSE IF UGt(Add(mem_start_addr, mem_size), regions[idx].start_addr) THEN 0
    ELSE RegionsLen(H, regions, idx + 1, regions[idx].start_addr, regions[idx].size)

\* the first check without the test for an earlier assembly
AssignRefusedNull(H, regions) == regions = << >>

\* "if (regions == NULL || lwobj->end_block != NULL)", is_initialized in the
\* light build
AssignRefused(H, regions) ==
    \/ regions = << >>
    \/ IF H.cfg.full THEN H.lw.end_block # NULL ELSE H.lw.is_initialized # 0

\* the end of lwmem_assignmem_ex
AssignBuild(H, regions) ==
    IF H.cfg.full THEN prv_assignmem(H, regions) ELSE prv_assignmem_simple(H, regions)

\* "Final init and check before initializing the regions"
AssignGuarded(H, regions, created) ==
    IF H.cfg.os /\ (lwmem_sys_mutex_isvalid(H) \/ ~created) THEN [H |-> H, ret |-> 0]
    ELSE IF H.cfg.os THEN AssignBuild(lwmem_sys_mutex_create(H, created), regions)
    ELSE AssignBuild(H, regions)

\* regions is <<>> for a NULL pointer; otherwise the array, its terminating
\* (NULL, 0) entry included
lwmem_assignmem_ex(H, regions, created) ==
    IF AssignRefused(H, regions) THEN [H |-> H, ret |-> 0]
    ELSE IF RegionsLen(H, regions, 1, 0, 0) = 0 THEN [H |-> H, ret |-> 0]
    ELSE AssignGuarded(H, regions, created)

lwmem_malloc_ex(H, region, size) ==
    IF H.cfg.full THEN prv_alloc(H, region, size) ELSE prv_alloc_simple(H, region, size)

\* the end of lwmem_calloc_ex: r is the result of prv_alloc
CallocClear(r, alloc_size) ==
    IF r.ret # NULL
    THEN [H |-> LWMEM_MEMSET(r.H, r.ret, 0, alloc_size), ret |-> r.ret]
    ELSE r

lwmem_calloc_ex(H, region, nitems, size) ==
    CallocClear(lwmem_malloc_ex(H, region, Mul(size, nitems)), Mul(size, nitems))

lwmem_realloc_ex(H, region, ptr, size) == prv_realloc(H, region, ptr, size)

lwmem_free_ex(H, ptr) == prv_free(H, ptr)

\* The safe variants take the address of the caller's pointer variable:
\* << >> stands for ptr == NULL, << v >> for a variable that holds v.  "var"
\* is the variable after the call.

\* lwmem_realloc_s_ex that stores new_ptr whether or not it is NULL
ReallocSafeStore(r, pp, size) ==
    [H |-> r.H, ret |-> IF r.ret # NULL \/ size = 0 THEN 1 ELSE 0, var |-> << r.ret >>]

\* after new_ptr = lwmem_realloc_ex(lwobj, region, *ptr, size)
ReallocSafeStep(r, pp, size) ==
    IF r.ret # NULL THEN [H |-> r.H, ret |-> 1, var |-> << r.ret >>]
    ELSE IF size = 0 THEN [H |-> r.H, ret |-> 1, var |-> << NULL >>]
    ELSE [H |-> r.H, ret |-> 0, var |-> pp]

lwmem_realloc_s_ex(H, region, pp, size) ==
    IF pp = << >>
    THEN [H |-> H, ret |-> 0, var |-> pp]
    ELSE ReallocSafeStep(lwmem_realloc_ex(H, region, pp[1], size), pp, size)

\* lwmem_free_s_ex without *ptr = NULL
lwmem_free_s_ex_kept(H, pp) ==
    IF pp # << >> /\ pp[1] # NULL
    THEN [H |-> prv_free(H, pp[1]), var |-> pp]
    ELSE [H |-> H, var |-> pp]

lwmem_free_s_ex(H, pp) ==
    IF pp # << >> /\ pp[1] # NULL
    THEN [H |-> prv_free(H, pp[1]), var |-> << NULL >>]
    ELSE [H |-> H, var |-> pp]

\* lwmem_get_size_ex that reports the block size, metadata included
lwmem_get_size_ex_whole(H, ptr) ==
    IF ptr # NULL /\ LWMEM_BLOCK_IS_ALLOC(H, LWMEM_GET_BLOCK_FROM_PTR(ptr))
    THEN ClearAllocBit(BlkSize(H, LWMEM_GET_BLOCK_FROM_PTR(ptr)))
    ELSE 0

lwmem_get_size_ex(H, ptr) ==
    IF ptr # NULL /\ LWMEM_BLOCK_IS_ALLOC(H, LWMEM_GET_BLOCK_FROM_PTR(ptr))
    THEN Sub(ClearAllocBit(BlkSize(H, LWMEM_GET_BLOCK_FROM_PTR(ptr))), LWMEM_BLOCK_META_SIZE)
    ELSE 0

(***************************************************************************)
(* Where the C code leaves defined behaviour.  The loops of lwmem.c follow *)
(* next pointers without checking them; a pointer that leaves the mapped   *)
(* memory, or a list that never ends, has no defined outcome.  A call is   *)
(* modelled only where every header it may read is mapped; elsewhere the   *)
(* run ends in the state fault.                                            *)
(***************************************************************************)
HdrMapped(b) == Mapped(b) /\ Mapped(b + PtrBytes)

\* every block on the list from b on is mapped and the list ends with NULL
RECURSIVE ListFrom(_, _, _)
ListFrom(H, b, fuel) ==
    /\ fuel > 0
    /\ \/ BlkNext(H, b) = NULL
       \/ /\ HdrMapped(BlkNext(H, b))
          /\ ListFrom(H, BlkNext(H, b), fuel - 1)

DefinedList(H) == ListFrom(H, StartBlockAddr, WalkFuel)

\* the walk "while p->next < limit" stays on mapped blocks and stops on one
RECURSIVE WalkFrom(_, _, _, _)
WalkFrom(H, p, limit, fuel) ==
    /\ fuel > 0
    /\ HdrMapped(BlkNext(H, p))
    /\ ULt(BlkNext(H, p), limit) => WalkFrom(H, BlkNext(H, p), limit, fuel - 1)

DefinedWalk(H, limit) == WalkFrom(H, StartBlockAddr, limit, WalkFuel)

DefinedAlloc(H, size) ==
    \/ H.lw.end_block = NULL
    \/ Add(LWMEM_ALIGN(size), LWMEM_BLOCK_META_SIZE) = LWMEM_BLOCK_META_SIZE
    \/ HasAllocBit(Add(LWMEM_ALIGN(size), LWMEM_BLOCK_META_SIZE))
    \/ DefinedList(H)

DefinedFree(H, ptr) ==
    \/ ptr = NULL
    \/ /\ HdrMapped(LWMEM_GET_BLOCK_FROM_PTR(ptr))
       /\ LWMEM_BLOCK_IS_ALLOC(H, LWMEM_GET_BLOCK_FROM_PTR(ptr))
            => DefinedWalk(H, LWMEM_GET_BLOCK_FROM_PTR(ptr))

DefinedRealloc(H, ptr, size) ==
    IF size = 0 THEN DefinedFree(H, ptr)
    ELSE IF ptr = NULL THEN DefinedAlloc(H, size)
    ELSE HdrMapped(LWMEM_GET_BLOCK_FROM_PTR(ptr)) /\ DefinedList(H)

(***************************************************************************)
(* The application: the calls it makes and the arguments it passes         *)
(***************************************************************************)
MaxLive == 3
MaxUnits == 3
MaxSeed == 1
MaxCalls == 6

RegionLists == { RegionsMain, <<Terminator>> }

\* request sizes: aligned and unaligned small ones, and the largest values
\* of size_t, whose rounding wraps around or reaches the alloc bit
SmallSizes == {0, 1, 12} \cup { 8 * k : k \in 1..MaxUnits }
AliasSizes == { MinInt, MaxInt - 7 }
WrapSizes == { -4, -8 }
ReqSizes == SmallSizes \cup AliasSizes

CallocArgs == { <<3, 4>>, <<2, 3>> }

\* LWMEM_CFG_CLEAN_MEMORY, LWMEM_CFG_ENABLE_STATS, LWMEM_CFG_OS, LWMEM_CFG_FULL
Configs == [clean : BOOLEAN, stats : {FALSE}, os : {FALSE}, full : {TRUE}]

\* the region pointer of a call: NULL or one of the assigned descriptors
Pins == 0..(Len(regs) - 1)
PinArg(i) == IF i = 0 THEN <<>> ELSE <<regs[i]>>

Machine == [mem |-> mem, lw |-> lw, cfg |-> cfg, oob |-> FALSE]

Pattern(seed, i) == (seed * 16 + i * 7 + 1) % 256

\* a call, its arguments and results; var is the caller's pointer variable
\* after a call of a safe variant, << >> where there is none
Call(op, pin, ptr, nitems, size, ret, branch) ==
    [op |-> op, pin |-> pin, ptr |-> ptr, nitems |-> nitems, size |-> size,
     ret |-> ret, branch |-> branch, var |-> << >>, regions |-> << >>, created |-> TRUE]

CallVar(c, var) == [c EXCEPT !.var = var]

\* a call of lwmem_assignmem_ex: the list it was given, and whether
\* lwmem_sys_mutex_create, if the call gets there, creates a mutex
CallList(c, regions, created) == [c EXCEPT !.regions = regions, !.created = created]

\* between two calls the application remembers no call
NoCall == Call("none", 0, NULL, 0, 0, 0, "none")
NoPre == [mem |-> << >>, lw |-> << >>, live |-> << >>]
Idle == ~fault /\ last = NoCall /\ calls < MaxCalls

\* the effect of a call that ends in machine state H with result ret: that
\* state when the call is defined, fault otherwise
Effect(def, H, ret, branch, newlive, op, pin, ptr, nitems, size) ==
    /\ pre' = [mem |-> mem, lw |-> lw, live |-> live]
    /\ calls' = calls + 1
    /\ IF def /\ ~H.oob
       THEN /\ mem' = H.mem
            /\ lw' = H.lw
            /\ live' = newlive
            /\ last' = Call(op, pin, ptr, nitems, size, ret, branch)
            /\ fault' = FALSE
       ELSE /\ fault' = TRUE
            /\ last' = Call(op, pin, ptr, nitems, size, NULL, "fault")
            /\ UNCHANGED <<mem, lw, live>>
    /\ UNCHANGED <<cfg, thr, lwobj, other, serial>>

\* the same for a call that leaves var in the caller's pointer variable
EffectVar(def, H, ret, newlive, op, pin, ptr, size, var) ==
    /\ pre' = [mem |-> mem, lw |-> lw, live |-> live]
    /\ calls' = calls + 1
    /\ IF def /\ ~H.oob
       THEN /\ mem' = H.mem
            /\ lw' = H.lw
            /\ live' = newlive
            /\ last' = CallVar(Call(op, pin, ptr, 0, size, ret, "done"), var)
            /\ fault' = FALSE
       ELSE /\ fault' = TRUE
            /\ last' = Call(op, pin, ptr, 0, size, NULL, "fault")
            /\ UNCHANGED <<mem, lw, live>>
    /\ UNCHANGED <<cfg, thr, lwobj, other, serial>>

\* the same for a call of lwmem_assignmem_ex
EffectList(H, ret, regions, created) ==
    /\ pre' = [mem |-> mem, lw |-> lw, live |-> live]
    /\ calls' = calls + 1
    /\ IF ~H.oob
       THEN /\ mem' = H.mem
            /\ lw' = H.lw
            /\ last' = CallList(Call("assignmem", 0, NULL, 0, 0, ret, "done"),
                                regions, created)
            /\ fault' = FALSE
       ELSE /\ fault' = TRUE
            /\ last' = CallList(Call("assignmem", 0, NULL, 0, 0, NULL, "fault"),
                                regions, created)
            /\ UNCHANGED <<mem, lw>>
    /\ UNCHANGED <<cfg, live, thr, lwobj, other, serial>>

\* the threads of the application, and a thread that is in no call
MaxThreads == 2
Threads == 1..MaxThreads
NoThread ==
    [pc |-> "idle", call |-> NoCall, seen |-> NoPre, own |-> {}, sret |-> NULL, n |-> 0]

\* no mutex: the handle of an instance no mutex was created for
NoMutex == [valid |-> FALSE, owner |-> 0]

\* a zero-initialised lwmem_t
ZeroInstance ==
    [start_block |-> [next |-> NULL, size |-> 0],
     end_block |-> NULL,
     mem_available_bytes |-> 0,
     mem_regions_count |-> 0,
     mem_next_available_ptr |-> NULL,
     is_initialized |-> 0,
     mutex |-> NoMutex,
     stats |-> [mem_size_bytes |-> 0,
                mem_available_bytes |-> 0,
                minimum_ever_mem_available_bytes |-> 0,
                nr_alloc |-> 0,
                nr_free |-> 0]]

\* the program before its first call, built with one of the configurations C
Construct(C) ==
    /\ mem = [w \in 0..(MemWords - 1) |-> 0]
    /\ lw = ZeroInstance
    /\ cfg \in C
    /\ regs = <<>>
    /\ live = {}
    /\ pre = NoPre
    /\ last = NoCall
    /\ fault = FALSE
    /\ calls = 0
    /\ thr = [t \in Threads |-> NoThread]
    /\ lwobj = NULL
    /\ other = [lw |-> ZeroInstance, regs |-> << >>, live |-> {}]
    /\ serial = NoPre

Init == Construct(Configs)

AssignmemReturn(regions, created, r) ==
    /\ EffectList(r.H, r.ret, regions, created)
    /\ regs' = IF ~r.H.oob /\ r.ret # 0 THEN regions ELSE regs

Assignmem(regions, created) ==
    /\ Idle
    /\ AssignmemReturn(regions, created, lwmem_assignmem_ex(Machine, regions, created))

AllocReturn(def, r, op, pin, nitems, size) ==
    Effect(def, r.H, r.ret, "done",
           IF r.ret # NULL THEN live \cup {r.ret} ELSE live,
           op, pin, NULL, nitems, size)

Malloc(pin, size) ==
    /\ Idle
    /\ Cardinality(live) < MaxLive
    /\ AllocReturn(DefinedAlloc(Machine, size),
                   lwmem_malloc_ex(Machine, PinArg(pin), size),
                   "malloc", pin, 0, size)
    /\ UNCHANGED regs

Calloc(pin, nitems, size) ==
    /\ Idle
    /\ Cardinality(live) < MaxLive
    /\ AllocReturn(DefinedAlloc(Machine, Mul(size, nitems)),
                   lwmem_calloc_ex(Machine, PinArg(pin), nitems, size),
                   "calloc", pin, nitems, size)
    /\ UNCHANGED regs

ReallocReturn(def, r, pin, ptr, size) ==
    Effect(def, r.H, r.ret, r.branch,
           IF r.ret # NULL THEN (live \ {ptr}) \cup {r.ret}
           ELSE IF size = 0 THEN live \ {ptr}
           ELSE live,
           "realloc", pin, ptr, 0, size)

Realloc(pin, ptr, size) ==
    /\ Idle
    /\ ptr = NULL => Cardinality(live) < MaxLive
    /\ ReallocReturn(DefinedRealloc(Machine, ptr, size),
                     lwmem_realloc_ex(Machine, PinArg(pin), ptr, size),
                     pin, ptr, size)
    /\ UNCHANGED regs

Free(ptr) ==
    /\ Idle
    /\ Effect(DefinedFree(Machine, ptr), lwmem_free_ex(Machine, ptr), NULL, "done",
              live \ {ptr}, "free", 0, ptr, 0, 0)
    /\ UNCHANGED regs

\* the application fills the n bytes of a block it holds
AppBytes(ptr, n, seed) ==
    LET nb(x) == Pattern(seed, x - ptr)
    IN  StoreBytes(Machine, ptr, n, nb)

\* the application stores data into a block, as many bytes as lwmem_get_size
\* reports for it
AppWrite(ptr, seed) ==
    /\ Idle
    /\ ptr \in live
    /\ HdrMapped(LWMEM_GET_BLOCK_FROM_PTR(ptr))
    /\ lwmem_get_size_ex(Machine, ptr) # 0
    /\ Effect(TRUE, AppBytes(ptr, lwmem_get_size_ex(Machine, ptr), seed), NULL, "done",
              live, "write", 0, ptr, 0, lwmem_get_size_ex(Machine, ptr))
    /\ UNCHANGED regs

\* the caller has looked at the result and goes on to its next call
Continue ==
    /\ ~fault
    /\ last # NoCall
    /\ pre' = NoPre
    /\ last' = NoCall
    /\ UNCHANGED <<mem, lw, cfg, regs, live, fault, calls, thr, lwobj, other, serial>>

Next ==
    \/ \E regions \in RegionLists : Assignmem(regions, TRUE)
    \/ \E pin \in Pins, size \in ReqSizes : Malloc(pin, size)
    \/ \E a \in CallocArgs : Calloc(0, a[1], a[2])
    \/ \E pin \in Pins, ptr \in live \cup {NULL}, size \in ReqSizes :
           Realloc(pin, ptr, size)
    \/ \E ptr \in live \cup {NULL} : Free(ptr)
    \/ \E ptr \in live, seed \in 1..MaxSeed : AppWrite(ptr, seed)
    \/ Continue

Spec == Init /\ [][Next]_vars

\* nitems and size whose product is 2^32 + 4
CallocWide == { << MaxInt \div 2 + 2, 4 >> }

\* the same application, also asking for sizes whose rounding wraps around
\* and for arrays whose size in bytes does
NextWide ==
    \/ Next
    \/ \E pin \in Pins, size \in WrapSizes : Malloc(pin, size)
    \/ \E a \in CallocWide : Calloc(0, a[1], a[2])

SpecWide == Init /\ [][NextWide]_vars

\* an application over the longer regions that asks for few sizes
TallSizes == {0, 1, 16, 20}

NextTall ==
    \/ Assignmem(RegionsTall, TRUE)
    \/ \E pin \in Pins, size \in TallSizes : Malloc(pin, size)
    \/ \E pin \in Pins, ptr \in live \cup {NULL}, size \in TallSizes :
           Realloc(pin, ptr, size)
    \/ \E ptr \in live : Free(ptr)
    \/ \E ptr \in live, seed \in 1..MaxSeed : AppWrite(ptr, seed)
    \/ Continue

SpecTall == Init /\ [][NextTall]_vars

(***************************************************************************)
(* What the properties below observe                                       *)
(***************************************************************************)
\* the machine before the last call
PreMachine == [mem |-> pre.mem, lw |-> pre.lw, cfg |-> cfg, oob |-> FALSE]

Returned == ~fault /\ last # NoCall
Assembled(H) == H.lw.end_block # NULL

\* the blocks reachable from b over next, while they are mapped
RECURSIVE ListSeq(_, _, _)
ListSeq(H, b, fuel) ==
    IF b = NULL \/ fuel = 0 \/ ~HdrMapped(b) THEN << >>
    ELSE <<b>> \o ListSeq(H, BlkNext(H, b), fuel - 1)

FreeList(H) == ListSeq(H, H.lw.start_block.next, WalkFuel)

Range(seq) == { seq[i] : i \in DOMAIN seq }

\* sum of the size fields over a sequence of blocks, modulo 2^SizeBits
RECURSIVE SumSizes(_, _, _)
SumSizes(H, seq, i) ==
    IF i > Len(seq) THEN 0 ELSE Add(BlkSize(H, seq[i]), SumSizes(H, seq, i + 1))

FreeBytes(H) == SumSizes(H, FreeList(H), 1)

\* the normalised extents of the assigned regions: first block and end marker
Extents ==
    { [lo |-> prv_get_region_addr_size(regs[i]).msa,
       end |-> Add(prv_get_region_addr_size(regs[i]).msa,
                   Sub(prv_get_region_addr_size(regs[i]).msz, LWMEM_BLOCK_META_SIZE))] :
        i \in { j \in 1..(Len(regs) - 1) : prv_get_region_addr_size(regs[j]).ok = 1 } }

\* the bytes of the block whose header is at b
BlockLen(H, b) == ClearAllocBit(BlkSize(H, b))
BlockBytes(H, b) ==
    IF BlockLen(H, b) > MemBytes THEN b..MemBytes ELSE b..(b + BlockLen(H, b) - 1)

\* the bytes a block on the free list takes: an end marker takes its header
ListedBytes(H, b) ==
    IF BlockLen(H, b) = 0 THEN b..(b + LWMEM_BLOCK_META_SIZE - 1) ELSE BlockBytes(H, b)

\* the payload bytes of the live block p as the application sees them
Payload(H, p, n) == [i \in 0..(n - 1) |-> ByteAt(H.mem, p + i)]

\* the payload addresses a caller can hold: word aligned, header in memory
PayloadAddrs ==
    { a \in 0..(MemBytes - 1) :
        a % PtrBytes = 0 /\ InMem(a) /\ InMem(a - LWMEM_BLOCK_META_SIZE) }

\* pointers the caller holds no more: to a block that is back on the free
\* list, or to one whose header still carries the allocated mark after the
\* block was freed into its predecessor
FreedPtrs ==
    { LWMEM_GET_PTR_FROM_BLOCK(b) : b \in { f \in Range(FreeList(Machine)) : BlkSize(Machine, f) # 0 } }

MarkedPtrs ==
    { p \in PayloadAddrs :
        /\ BlkNext(Machine, LWMEM_GET_BLOCK_FROM_PTR(p)) = LWMEM_BLOCK_ALLOC_MARK
        /\ ~HasAllocBit(BlkSize(Machine, LWMEM_GET_BLOCK_FROM_PTR(p))) }

Stale == (FreedPtrs \cup MarkedPtrs) \ live

StaleSizes == {1, 16}

\* lwmem_get_size_ex reads the header and writes nothing
GetSize(ptr) ==
    /\ Idle
    /\ Effect(ptr = NULL \/ HdrMapped(LWMEM_GET_BLOCK_FROM_PTR(ptr)),
              Machine, lwmem_get_size_ex(Machine, ptr), "done",
              live, "get_size", 0, ptr, 0, 0)
    /\ UNCHANGED regs

\* what the caller passes to a safe variant: no variable, or a variable that
\* holds NULL or a live pointer
VarArgs == { << >> } \cup { << v >> : v \in live \cup {NULL} }
VarPtr(pp) == IF pp = << >> THEN NULL ELSE pp[1]

SafeSizes == {0, 8, 24}

ReallocSReturn(def, r, pin, pp, size) ==
    EffectVar(def, r.H, r.ret,
              IF r.var = pp THEN live
              ELSE (live \ {VarPtr(pp)}) \cup ({VarPtr(r.var)} \ {NULL}),
              "realloc_s", pin, VarPtr(pp), size, r.var)

ReallocS(pin, pp, size) ==
    /\ Idle
    /\ (pp = << NULL >> /\ size # 0) => Cardinality(live) < MaxLive
    /\ ReallocSReturn(pp = << >> \/ DefinedRealloc(Machine, VarPtr(pp), size),
                      lwmem_realloc_s_ex(Machine, PinArg(pin), pp, size),
                      pin, pp, size)
    /\ UNCHANGED regs

FreeSReturn(def, r, pp) ==
    EffectVar(def, r.H, NULL, live \ {VarPtr(pp)}, "free_s", 0, VarPtr(pp), 0, r.var)

FreeS(pp) ==
    /\ Idle
    /\ FreeSReturn(DefinedFree(Machine, VarPtr(pp)), lwmem_free_s_ex(Machine, pp), pp)
    /\ UNCHANGED regs

\* the same application, also passing pointers it holds no more, asking for
\* the size of blocks and using the safe variants
NextApi ==
    \/ Next
    \/ \E pp \in VarArgs, size \in SafeSizes : ReallocS(0, pp, size)
    \/ \E pp \in VarArgs : FreeS(pp)
    \/ \E ptr \in Stale : Free(ptr)
    \/ \E ptr \in Stale, size \in StaleSizes : Realloc(0, ptr, size)
    \/ \E ptr \in live \cup Stale \cup {NULL} : GetSize(ptr)

SpecApi == Init /\ [][NextApi]_vars

(***************************************************************************)
(* The build with LWMEM_CFG_ENABLE_STATS: the application of SpecTall,     *)
(* which also calls calloc.                                                *)
(***************************************************************************)
ConfigsStats == [clean : {FALSE}, stats : {TRUE}, os : {FALSE}, full : {TRUE}]

NextStats ==
    \/ NextTall
    \/ \E a \in CallocArgs : Calloc(0, a[1], a[2])

SpecStats == Construct(ConfigsStats) /\ [][NextStats]_vars

(***************************************************************************)
(* The application that assembles: it calls lwmem_assignmem_ex with well   *)
(* and badly formed region arrays, before and after a successful assembly, *)
(* in the full and the light build, with and without the OS guard, and     *)
(* allocates and frees in between.                                         *)
(***************************************************************************)
Region(a, n) == [start_addr |-> a, size |-> n]

\* single regions: aligned and unaligned bases; sizes below the alignment
\* advance, below and at two minimum blocks, aligned and unaligned
RawBases == {8, 10, 13}
RawSizes == {1, 2, 16, 18, 19, 20, 36}

RegionsOverlap == << Region(6, 42), Region(40, 24), Terminator >>
RegionsDescend == << Region(48, 24), Region(6, 42), Terminator >>
RegionsSmall == << Region(8, 12), Terminator >>
RegionsMixed == << Region(6, 14), Region(48, 24), Terminator >>
RegionsShort == << Region(13, 1), Region(48, 24), Terminator >>
RegionsGap == << Region(8, 32), Region(40, 0), Region(48, 24), Terminator >>

\* << >> is the NULL pointer, << Terminator >> the empty array
AssignLists ==
    { << >>, << Terminator >>, RegionsMain, RegionsOverlap, RegionsDescend,
      RegionsSmall, RegionsMixed, RegionsShort, RegionsGap }
    \cup { << Region(a, n), Terminator >> : a \in RawBases, n \in RawSizes }

AssignSizes == {1, 16}

ConfigsAssign == [clean : {FALSE}, stats : {FALSE}, os : BOOLEAN, full : BOOLEAN]

\* what lwmem_sys_mutex_create may return in this build
Creations == IF cfg.os THEN BOOLEAN ELSE {TRUE}

\* an earlier lwmem_assignmem_ex has set the instance up
InUse(H) == IF H.cfg.full THEN H.lw.end_block # NULL ELSE H.lw.is_initialized # 0

NextAssign ==
    \/ \E regions \in AssignLists, created \in Creations : Assignmem(regions, created)
    \/ \E size \in AssignSizes : InUse(Machine) /\ Malloc(0, size)
    \/ \E ptr \in live : cfg.full /\ Free(ptr)
    \/ Continue

SpecAssign == Construct(ConfigsAssign) /\ [][NextAssign]_vars

(***************************************************************************)
(* The build with LWMEM_CFG_OS: threads call into one instance.  A public  *)
(* call is several steps of its thread: it enters, waits in LWMEM_PROTECT  *)
(* for the mutex, reads the instance, writes what the private function     *)
(* computed from what it read, leaves through LWMEM_UNPROTECT, clears the  *)
(* block if the call is calloc, and returns.  Steps of different threads   *)
(* interleave freely.  The main thread assembles the instance before the   *)
(* threads start; the threads start once the instance has its mutex.       *)
(***************************************************************************)
ConfigsOs == [clean : {FALSE}, stats : {TRUE}, os : {TRUE}, full : {TRUE}]

\* calls one thread makes
MaxEach == 2

OsSizes == {1, 16}
OsCallocArgs == { <<2, 3>> }

\* an address no block was handed out at
InvalidPtr == 12


\* osMutexAcquire with osWaitForever returns once no thread owns the mutex
MutexFree(H) ==
    H.lw.mutex.valid /\ H.lw.mutex.owner = 0

lwmem_sys_mutex_wait(H, t) == [H EXCEPT !.lw.mutex.owner = t]

\* a release that leaves the mutex with its owner
MutexKept(H, t) == H

\* osMutexRelease gives up a mutex the calling thread owns
lwmem_sys_mutex_release(H, t) ==
    IF H.lw.mutex.owner = t THEN [H EXCEPT !.lw.mutex.owner = 0] ELSE H

LWMEM_PROTECT(H, t) == IF H.cfg.os THEN lwmem_sys_mutex_wait(H, t) ELSE H

LWMEM_UNPROTECT(H, t) == IF H.cfg.os THEN lwmem_sys_mutex_release(H, t) ELSE H

\* lwmem_get_stats_ex: what it stores into the caller's lwmem_stats_t
lwmem_get_stats_ex(H) ==
    [H.lw.stats EXCEPT !.mem_available_bytes = H.lw.mem_available_bytes]

\* the public calls that reach LWMEM_PROTECT: lwmem_get_size_ex returns 0
\* for a NULL pointer before it
Locks(c) == c.op = "get_size" => c.ptr # NULL

\* the calls thread t may make with the pointers it holds
OsCalls(t) ==
    { Call("malloc", 0, NULL, 0, size, NULL, "none") : size \in OsSizes }
    \cup { Call("calloc", 0, NULL, a[1], a[2], NULL, "none") : a \in OsCallocArgs }
    \cup { Call("realloc", 0, ptr, 0, 16, NULL, "none") : ptr \in thr[t].own }
    \cup { Call("free", 0, ptr, 0, 0, NULL, "none") : ptr \in thr[t].own \cup {InvalidPtr} }
    \cup { Call("get_size", 0, ptr, 0, 0, 0, "none") : ptr \in thr[t].own \cup {NULL} }
    \cup { Call("get_stats", 0, NULL, 0, 0, NULL, "none") }

Allocates(c) == c.op \in {"malloc", "calloc"}

\* the part of public call c between LWMEM_PROTECT and LWMEM_UNPROTECT
Protected(H, c) ==
    CASE c.op = "malloc" -> lwmem_malloc_ex(H, PinArg(c.pin), c.size)
      [] c.op = "calloc" -> lwmem_malloc_ex(H, PinArg(c.pin), Mul(c.size, c.nitems))
      [] c.op = "realloc" -> lwmem_realloc_ex(H, PinArg(c.pin), c.ptr, c.size)
      [] c.op = "free" -> [H |-> lwmem_free_ex(H, c.ptr), ret |-> NULL]
      [] c.op = "get_size" -> [H |-> H, ret |-> lwmem_get_size_ex(H, c.ptr)]
      [] OTHER -> [H |-> H, ret |-> lwmem_get_stats_ex(H)]

\* the whole of public call c, run with no other call in its way
Whole(H, c) ==
    IF c.op = "calloc" THEN lwmem_calloc_ex(H, PinArg(c.pin), c.nitems, c.size)
    ELSE Protected(H, c)

\* public call c stays within the defined behaviour of C
DefinedCall(H, c) ==
    CASE c.op = "malloc" -> DefinedAlloc(H, c.size)
      [] c.op = "calloc" -> DefinedAlloc(H, Mul(c.size, c.nitems))
      [] c.op = "realloc" -> DefinedRealloc(H, c.ptr, c.size)
      [] c.op = "free" -> DefinedFree(H, c.ptr)
      [] c.op = "get_size" -> c.ptr # NULL => HdrMapped(LWMEM_GET_BLOCK_FROM_PTR(c.ptr))
      [] OTHER -> TRUE

\* the pointers a thread holds after call c returned ret
Holds(own, c, ret) ==
    CASE Allocates(c) -> IF ret # NULL THEN own \cup {ret} ELSE own
      [] c.op = "realloc" -> IF ret # NULL THEN (own \ {c.ptr}) \cup {ret}
                             ELSE IF c.size = 0 THEN own \ {c.ptr}
                             ELSE own
      [] c.op = "free" -> own \ {c.ptr}
      [] OTHER -> own

\* the instance and the memory as thread t read them when it got the mutex
Seen(t) == [mem |-> thr[t].seen.mem, lw |-> thr[t].seen.lw, cfg |-> cfg, oob |-> FALSE]

\* the instance and the memory of the one-after-another run
SerialMachine ==
    IF serial = NoPre THEN [Machine EXCEPT !.lw.mutex.owner = 0]
    ELSE [mem |-> serial.mem, lw |-> serial.lw, cfg |-> cfg, oob |-> FALSE]

ThreadsRun == ~fault /\ last = NoCall /\ lw.mutex.valid

\* thread t calls c
Enter(t, c) ==
    /\ ThreadsRun
    /\ thr[t].pc = "idle"
    /\ thr[t].n < MaxEach
    /\ Allocates(c) => Cardinality(live) < MaxLive
    /\ thr' = [thr EXCEPT ![t].pc = IF Locks(c) THEN "wait" ELSE "out",
                          ![t].call = c,
                          ![t].sret = c.ret,
                          ![t].n = @ + 1]
    /\ UNCHANGED <<mem, lw, cfg, regs, live, pre, last, fault, calls, lwobj, other, serial>>

\* LWMEM_PROTECT returns in thread t
Acquire(t) ==
    /\ ~fault
    /\ thr[t].pc = "wait"
    /\ MutexFree(Machine)
    /\ lw' = LWMEM_PROTECT(Machine, t).lw
    /\ thr' = [thr EXCEPT ![t].pc = "in",
                          ![t].seen = [mem |-> mem, lw |-> lw', live |-> live]]
    /\ UNCHANGED <<mem, cfg, regs, live, pre, last, fault, calls, lwobj, other, serial>>

\* thread t stores what the private function computed: r from what the
\* thread read, s in the one-after-another run
BodyWrites(t, r, s) ==
    /\ mem' = [w \in DOMAIN mem |->
                  IF r.H.mem[w] # thr[t].seen.mem[w] THEN r.H.mem[w] ELSE mem[w]]
    /\ lw' = [r.H.lw EXCEPT !.mutex = lw.mutex]
    /\ serial' = [mem |-> s.H.mem, lw |-> s.H.lw]
    /\ thr' = [thr EXCEPT ![t].pc = "unlock",
                          ![t].call.ret = r.ret,
                          ![t].sret = s.ret,
                          ![t].own = Holds(@, thr[t].call, r.ret)]
    /\ live' = UNION { thr'[u].own : u \in Threads }
    /\ fault' = FALSE

\* the private function left the defined behaviour of C
BodyFault ==
    /\ fault' = TRUE
    /\ UNCHANGED <<mem, lw, live, thr, serial>>

Body(t) ==
    /\ ~fault
    /\ thr[t].pc = "in"
    /\ IF DefinedCall(Seen(t), thr[t].call)
       THEN \E r \in { Protected(Seen(t), thr[t].call) },
               s \in { Whole(SerialMachine, thr[t].call) } :
                   IF r.H.oob THEN BodyFault ELSE BodyWrites(t, r, s)
       ELSE BodyFault
    /\ UNCHANGED <<cfg, regs, pre, last, calls, lwobj, other>>

\* LWMEM_UNPROTECT in thread t
Release(t) ==
    /\ ~fault
    /\ thr[t].pc = "unlock"
    /\ lw' = LWMEM_UNPROTECT(Machine, t).lw
    /\ thr' = [thr EXCEPT ![t].pc = IF thr[t].call.op = "calloc" THEN "clear" ELSE "out"]
    /\ UNCHANGED <<mem, cfg, regs, live, pre, last, fault, calls, lwobj, other, serial>>

\* the end of lwmem_calloc_ex in thread t
Clear(t) ==
    /\ ~fault
    /\ thr[t].pc = "clear"
    /\ mem' = CallocClear([H |-> Machine, ret |-> thr[t].call.ret],
                          Mul(thr[t].call.size, thr[t].call.nitems)).H.mem
    /\ thr' = [thr EXCEPT ![t].pc = "out"]
    /\ UNCHANGED <<lw, cfg, regs, live, pre, last, fault, calls, lwobj, other, serial>>

\* the call returns to thread t
Return(t) ==
    /\ ~fault
    /\ thr[t].pc = "out"
    /\ thr' = [thr EXCEPT ![t].pc = "idle", ![t].call = NoCall, ![t].seen = NoPre,
                          ![t].sret = NULL]
    /\ UNCHANGED <<mem, lw, cfg, regs, live, pre, last, fault, calls, lwobj, other, serial>>

\* thread t computes: it is in the private function or in the memset of
\* lwmem_calloc_ex.  Body(t) and Clear(t) are enabled exactly then, and each
\* takes the thread out of it.
Computes(t) == thr[t].pc \in {"in", "clear"}

\* thread t leaves LWMEM_UNPROTECT or the call
Leave(t) == Release(t) \/ Return(t)

\* the main thread assembles the instance; lwmem_sys_mutex_create may fail
Assemble ==
    \E regions \in {RegionsMain, RegionsSmall}, created \in BOOLEAN :
        ~lw.mutex.valid /\ Assignmem(regions, created)

NextOs ==
    \/ Assemble
    \/ Continue
    \/ \E t \in Threads : \E c \in OsCalls(t) : Enter(t, c)
    \/ \E t \in Threads : Acquire(t)
    \/ \E t \in Threads : Body(t)
    \/ \E t \in Threads : Release(t)
    \/ \E t \in Threads : Clear(t)
    \/ \E t \in Threads : Return(t)

SpecOs == Construct(ConfigsOs) /\ [][NextOs]_vars

\* the threads also pass a request size whose rounding wraps around
WideCalls(t) ==
    { Call("malloc", 0, NULL, 0, size, NULL, "none") : size \in {16} \cup WrapSizes }
    \cup { Call("free", 0, ptr, 0, 0, NULL, "none") : ptr \in thr[t].own }
    \cup { Call("get_size", 0, ptr, 0, 0, 0, "none") : ptr \in thr[t].own }

NextOsWide ==
    \/ Assignmem(RegionsMain, TRUE)
    \/ Continue
    \/ \E t \in Threads : \E c \in WideCalls(t) : Enter(t, c)
    \/ \E t \in Threads : Acquire(t)
    \/ \E t \in Threads : Body(t)
    \/ \E t \in Threads : Release(t)
    \/ \E t \in Threads : Return(t)

SpecOsWide == Construct(ConfigsOs) /\ [][NextOsWide]_vars

\* the calls of the threads whose ends are followed: each public call once,
\* with the arguments that make it fail as well
EndCalls(t) ==
    { Call("malloc", 0, NULL, 0, 0, NULL, "none"),
      Call("calloc", 0, NULL, 2, 3, NULL, "none"),
      Call("free", 0, InvalidPtr, 0, 0, NULL, "none"),
      Call("get_size", 0, NULL, 0, 0, 0, "none") }
    \cup { Call("realloc", 0, ptr, 0, 16, NULL, "none") : ptr \in thr[t].own }
    \cup { Call("free", 0, ptr, 0, 0, NULL, "none") : ptr \in thr[t].own }
    \cup { Call("get_size", 0, ptr, 0, 0, 0, "none") : ptr \in thr[t].own }

NextEnds ==
    \/ Assemble
    \/ Continue
    \/ \E t \in Threads : \E c \in EndCalls(t) : Enter(t, c)
    \/ \E t \in Threads : Acquire(t)
    \/ \E t \in Threads : Body(t)
    \/ \E t \in Threads : Release(t)
    \/ \E t \in Threads : Clear(t)
    \/ \E t \in Threads : Return(t)

\* the scheduler lets every thread run that can: no thread stays for ever
\* before a step that waits for nothing (for Body and Clear this is weak
\* fairness written with their enabling condition); and the mutex is fair: a
\* thread that waits while the mutex becomes free again and again gets it
SpecOsFair ==
    /\ Construct(ConfigsOs)
    /\ [][NextEnds]_vars
    /\ \A t \in Threads :
           /\ WF_vars(Leave(t))
           /\ []<>(~Computes(t))
           /\ SF_vars(Acquire(t))

(***************************************************************************)
(* The application with two instances: the default instance of the         *)
(* library, which it names by NULL, and an instance of its own.  Variable  *)
(* lw is the control block lwmem_default and other.lw the control block    *)
(* lw_custom; both have their regions in the one memory, the region of     *)
(* lw_custom between the two regions of the default instance.  The         *)
(* application keeps the pointers it got with NULL in live and those it    *)
(* got with &lw_custom in other.live, and hands a pointer back to the      *)
(* instance it got it from.                                                *)
(***************************************************************************)
lwmem_default == 256
lw_custom == 512

\* an instance that is always the default one
DefaultAlways(in_lwobj) == lwmem_default

LWMEM_GET_LWOBJ(in_lwobj) ==
    IF in_lwobj # NULL THEN in_lwobj ELSE lwmem_default

ConfigsTwo == [clean : BOOLEAN, stats : {TRUE}, os : {FALSE}, full : {TRUE}]

\* the instance arguments the application passes
Instances == {NULL, lw_custom}

RegionsDefault == << Region(6, 34), Region(64, 24), Terminator >>
RegionsCustom == << Region(40, 24), Terminator >>

RegionsFor(in) == IF in = NULL THEN RegionsDefault ELSE RegionsCustom

TwoSizes == {1, 16}

\* what the application holds for the instance it names by in
HeldBy(in) == IF in = NULL THEN live ELSE other.live
AssignedTo(in) == IF in = NULL THEN regs ELSE other.regs

\* the memory with the control block at address lwobj
MachineOf(obj) ==
    [mem |-> mem,
     lw |-> IF obj = lwmem_default THEN lw ELSE other.lw,
     cfg |-> cfg,
     oob |-> FALSE]

TwoCalls(in) ==
    { Call("malloc", 0, NULL, 0, size, NULL, "none") : size \in TwoSizes }
    \cup { Call("calloc", 0, NULL, a[1], a[2], NULL, "none") : a \in OsCallocArgs }
    \cup { Call("realloc", 0, ptr, 0, size, NULL, "none") :
               ptr \in HeldBy(in), size \in {0} \cup TwoSizes }
    \cup { Call("free", 0, ptr, 0, 0, NULL, "none") : ptr \in HeldBy(in) }
    \cup { Call("get_size", 0, ptr, 0, 0, 0, "none") : ptr \in HeldBy(in) }

\* the call with instance argument in has worked on the control block at obj
\* and ends in machine state H
StoreOn(in, obj, H, newlast, newheld, newregs) ==
    /\ pre' = [mem |-> mem, lw |-> lw, live |-> live]
    /\ calls' = calls + 1
    /\ lwobj' = in
    /\ last' = newlast
    /\ fault' = FALSE
    /\ mem' = H.mem
    /\ lw' = IF obj = lwmem_default THEN H.lw ELSE lw
    /\ live' = IF in = NULL THEN newheld ELSE live
    /\ regs' = IF in = NULL THEN newregs ELSE regs
    /\ other' = [lw |-> IF obj = lwmem_default THEN other.lw ELSE H.lw,
                 live |-> IF in = NULL THEN other.live ELSE newheld,
                 regs |-> IF in = NULL THEN other.regs ELSE newregs]
    /\ UNCHANGED <<cfg, thr, serial>>

CallReturn(in, obj, c, r) ==
    StoreOn(in, obj, r.H, [c EXCEPT !.ret = r.ret], Holds(HeldBy(in), c, r.ret),
            AssignedTo(in))

\* the call left the defined behaviour of C
CallFault(in, c) ==
    /\ pre' = [mem |-> mem, lw |-> lw, live |-> live]
    /\ calls' = calls + 1
    /\ lwobj' = in
    /\ last' = [c EXCEPT !.branch = "fault"]
    /\ fault' = TRUE
    /\ UNCHANGED <<mem, lw, cfg, regs, live, thr, other, serial>>

\* lwmem_malloc_ex(in, ...), lwmem_calloc_ex(in, ...), lwmem_realloc_ex(in, ...),
\* lwmem_free_ex(in, ...), lwmem_get_size_ex(in, ...)
CallOn(in, c) ==
    /\ Idle
    /\ Allocates(c) => Cardinality(HeldBy(in)) < MaxLive
    /\ IF DefinedCall(MachineOf(LWMEM_GET_LWOBJ(in)), c)
       THEN \E r \in { Whole(MachineOf(LWMEM_GET_LWOBJ(in)), c) } :
                IF r.H.oob THEN CallFault(in, c)
                ELSE CallReturn(in, LWMEM_GET_LWOBJ(in), c, r)
       ELSE CallFault(in, c)

AssembleReturn(in, obj, regions, r) ==
    StoreOn(in, obj, r.H,
            CallList(Call("assignmem", 0, NULL, 0, 0, r.ret, "done"), regions, TRUE),
            HeldBy(in),
            IF r.ret # 0 THEN regions ELSE AssignedTo(in))

\* lwmem_assignmem_ex(in, regions)
AssembleOn(in, regions) ==
    /\ Idle
    /\ AssignedTo(in) = << >>
    /\ \E r \in { lwmem_assignmem_ex(MachineOf(LWMEM_GET_LWOBJ(in)), regions, TRUE) } :
           AssembleReturn(in, LWMEM_GET_LWOBJ(in), regions, r)

NextTwo ==
    \/ \E in \in Instances : AssembleOn(in, RegionsFor(in))
    \/ \E in \in Instances : \E c \in TwoCalls(in) : CallOn(in, c)
    \/ Continue

SpecTwo == Construct(ConfigsTwo) /\ [][NextTwo]_vars

(***************************************************************************)
(* Properties                                                              *)
(***************************************************************************)
\* no call of the application leaves the defined behaviour of C
NoFault == ~fault

LiveBlock(p) == LWMEM_GET_BLOCK_FROM_PTR(p)

\* the block of p lies in one region's extent, below its end marker
InsideRegion(H, b) ==
    \E e \in Extents :
        /\ e.lo <= b
        /\ BlockLen(H, b) <= MemBytes
        /\ b + BlockLen(H, b) <= e.end

\* C1: after any sequence of malloc, calloc, realloc and free calls the
\* blocks of the live allocations are pairwise disjoint, each lies inside one
\* region's normalised extent below the end marker, and none overlaps a block
\* reachable on the free list.
C1_LiveBlocksSeparate ==
    \A p \in live :
        /\ InsideRegion(Machine, LiveBlock(p))
        /\ \A q \in live \ {p} :
              BlockBytes(Machine, LiveBlock(p)) \cap BlockBytes(Machine, LiveBlock(q)) = {}
        /\ \A f \in Range(FreeList(Machine)) :
              BlockBytes(Machine, LiveBlock(p)) \cap ListedBytes(Machine, f) = {}

\* C2: after assembly and after every public operation, failing calls
\* included, mem_available_bytes equals the sum of the size fields of the
\* blocks reachable on the free list.  Stated for the states in which the
\* list can be followed to its end.
C2_AvailableIsFreeSum ==
    DefinedList(Machine) => lw.mem_available_bytes = FreeBytes(Machine)

\* the instance right after construction, and right after the assembly
Fresh ==
    [mem |-> [w \in 0..(MemWords - 1) |-> 0],
     lw |-> ZeroInstance,
     cfg |-> cfg,
     oob |-> FALSE]

PostAssembly == lwmem_assignmem_ex(Fresh, regs, TRUE).H

SameHeaders(G, H, blocks) ==
    \A b \in blocks : BlkNext(G, b) = BlkNext(H, b) /\ BlkSize(G, b) = BlkSize(H, b)

\* the free list, its headers and the byte count of H are those of G
SameFreeState(G, H) ==
    /\ H.lw.start_block = G.lw.start_block
    /\ H.lw.end_block = G.lw.end_block
    /\ H.lw.mem_available_bytes = G.lw.mem_available_bytes
    /\ FreeList(H) = FreeList(G)
    /\ SameHeaders(G, H, Range(FreeList(G)))

\* C3: once every live pointer has been freed the instance is back in its
\* post-assembly state: one free block per region at its base, linked through
\* the end markers, and mem_available_bytes at its initial value.
C3_AllFreedRestoresAssembly ==
    (Assembled(Machine) /\ live = {}) => SameFreeState(PostAssembly, Machine)

\* align_up(n) + M as the allocator computes it, and whether that wrapped
FinalSize(n) == Add(LWMEM_ALIGN(n), LWMEM_BLOCK_META_SIZE)
Wraps(n) == ULt(FinalSize(n), n)

SetMin(S) == CHOOSE x \in S : \A y \in S : x <= y
SetMax(S) == CHOOSE x \in S : \A y \in S : x >= y

\* the last call was op and has returned
Did(op) == Returned /\ last.op = op

\* C4: a malloc, calloc or realloc (size > 0) that returns NULL leaves the
\* free list, every block header, mem_available_bytes and the payload of
\* every live block as they were; a failed realloc leaves the old block
\* allocated with its contents.
C4_FailedCallChangesNothing ==
    (/\ Returned
     /\ last.op \in {"malloc", "calloc", "realloc"}
     /\ last.ret = NULL
     /\ ~(last.op = "realloc" /\ last.size = 0))
    => /\ mem = pre.mem
       /\ lw = pre.lw
       /\ live = pre.live
       /\ last.ptr \in pre.live => LWMEM_BLOCK_IS_ALLOC(Machine, LiveBlock(last.ptr))

\* a realloc of a live block that holds data fails for want of room
C4_Witness ==
    /\ Did("realloc")
    /\ last.branch = "nofit"
    /\ last.ptr \in live
    /\ ByteAt(mem, last.ptr) = Pattern(1, 0)
    /\ LWMEM_BLOCK_IS_ALLOC(Machine, LiveBlock(last.ptr))

\* the last call was realloc(p, n) with p live and n > 0
DidRealloc == Did("realloc") /\ last.ptr \in pre.live /\ last.size # 0

\* size > old ? old : size
MinLen(size, old) == IF ULt(old, size) THEN old ELSE size

SameBytes(p, q, n) == Payload(PreMachine, p, n) = Payload(Machine, q, n)

Fitting(H, n, lo, hi) ==
    IF Wraps(n) THEN {}
    ELSE { b \in Range(FreeList(H)) :
             lo <= b /\ b < hi /\ UGe(BlkSize(H, b), FinalSize(n)) }

FirstFit(S) == IF S = {} THEN NULL ELSE LWMEM_GET_PTR_FROM_BLOCK(SetMin(S))

\* C6: malloc(n) without a region pin returns the payload of the
\* lowest-addressed free block on the list whose size is at least
\* align_up(n) + M, and NULL exactly when there is none.
C6_FirstFitAcrossRegions ==
    (Did("malloc") /\ last.pin = 0 /\ last.size # 0)
    => last.ret = FirstFit(Fitting(PreMachine, last.size, 0, MemBytes))

\* the extent of the region a call is pinned to
PinLo(pin) == prv_get_region_addr_size(regs[pin]).msa
PinHi(pin) == PinLo(pin) + prv_get_region_addr_size(regs[pin]).msz

\* C7: malloc_ex(n) with a region pin returns the payload of the first free
\* block inside the pinned region's extent whose size is at least
\* align_up(n) + M, also when a lower region has room, and NULL when the
\* pinned region has none, also when other regions have room.
C7_PinnedFirstFit ==
    (Did("malloc") /\ last.pin # 0 /\ last.size # 0)
    => last.ret = FirstFit(Fitting(PreMachine, last.size,
                                   PinLo(last.pin), PinHi(last.pin)))

\* the block realloc was called on, its size and its end before the call
OldBlock == LiveBlock(last.ptr)
OldLen == BlockLen(PreMachine, OldBlock)
OldEnd == OldBlock + OldLen

\* the last call was realloc(p, n), p live, n > 0, with a representable
\* align_up(n) + M
DidResize ==
    /\ DidRealloc
    /\ ~Wraps(last.size)
    /\ ~HasAllocBit(last.size)
    /\ ~HasAllocBit(FinalSize(last.size))

\* C8: realloc(p, n) of a live p with 0 < align_up(n) + M <= the block's
\* size never moves the block: it returns p, p stays a live allocation and
\* get_size(p) >= n afterwards.
C8_ShrinkInPlace ==
    (DidResize /\ ULe(FinalSize(last.size), OldLen))
    => /\ last.ret = last.ptr
       /\ last.ptr \in live
       /\ LWMEM_BLOCK_IS_ALLOC(Machine, OldBlock)
       /\ OldBlock \notin Range(FreeList(Machine))
       /\ UGe(lwmem_get_size_ex(Machine, last.ptr), last.size)

\* the block shrank by less than M next to a free successor, which took
\* the freed bytes
C8_Witness ==
    /\ DidResize
    /\ last.branch = "shrink_next"
    /\ last.ret = last.ptr
    /\ BlockLen(Machine, OldBlock) < OldLen
    /\ OldBlock + BlockLen(Machine, OldBlock) \in Range(FreeList(Machine))

\* the request needs more than the block holds
DidGrow == DidResize /\ UGt(FinalSize(last.size), OldLen)

\* the free block that starts where the old block ended suffices
NextSuffices ==
    /\ OldEnd \in Range(FreeList(PreMachine))
    /\ UGe(Add(OldLen, BlkSize(PreMachine, OldEnd)), FinalSize(last.size))

\* bytes left over from block and successor after taking the request
NextLeft == Sub(Add(OldLen, BlkSize(PreMachine, OldEnd)), FinalSize(last.size))

\* C9: when realloc(p, n) must grow and the free block right after p's
\* block is adjacent with block size + successor size >= align_up(n) + M,
\* it returns p (also when a free predecessor would suffice), the successor
\* leaves the free list, and a leftover of at least M goes back as a free
\* block.
C9_GrowIntoNext ==
    (DidGrow /\ NextSuffices)
    => /\ last.ret = last.ptr
       /\ last.ptr \in live
       /\ OldEnd \notin Range(FreeList(Machine))
       /\ IF UGe(NextLeft, LWMEM_BLOCK_MIN_SIZE)
          THEN /\ BlockLen(Machine, OldBlock) = FinalSize(last.size)
               /\ OldBlock + FinalSize(last.size) \in Range(FreeList(Machine))
               /\ BlkSize(Machine, OldBlock + FinalSize(last.size)) = NextLeft
          ELSE BlockLen(Machine, OldBlock) = Add(OldLen, BlkSize(PreMachine, OldEnd))

\* the free blocks below the old block, and the last of them
FreeBelow == { b \in Range(FreeList(PreMachine)) : b < OldBlock }
PrevFree == SetMax(FreeBelow)

\* the last free block below the old block ends where it starts and
\* suffices together with it
PrevSuffices ==
    /\ FreeBelow # {}
    /\ Add(PrevFree, BlkSize(PreMachine, PrevFree)) = OldBlock
    /\ UGe(Add(OldLen, BlkSize(PreMachine, PrevFree)), FinalSize(last.size))

\* the block grew into its successor although the predecessor alone
\* would have sufficed
C9_Witness ==
    /\ DidGrow
    /\ NextSuffices
    /\ PrevSuffices
    /\ last.branch = "grow_next"
    /\ last.ret = last.ptr

BothLen == Add(BlkSize(PreMachine, PrevFree), Add(OldLen, BlkSize(PreMachine, OldEnd)))

\* predecessor, old block and successor are contiguous and suffice together
BothSuffice ==
    /\ FreeBelow # {}
    /\ Add(PrevFree, BlkSize(PreMachine, PrevFree)) = OldBlock
    /\ OldEnd \in Range(FreeList(PreMachine))
    /\ UGe(BothLen, FinalSize(last.size))

\* the free blocks after the call that start inside the three merged blocks
FreeWithin == { f \in Range(FreeList(Machine)) : PrevFree <= f /\ f < PrevFree + BothLen }

\* C11: when realloc(p, n) must grow, neither the free successor alone nor
\* the free predecessor alone gives enough room, but predecessor, block and
\* successor are contiguous with prev.size + block_size + succ.size >=
\* align_up(n) + M, it returns prev + M, both neighbours leave the free list
\* and a leftover of at least M becomes one free block.
C11_GrowIntoBoth ==
    (DidGrow /\ ~NextSuffices /\ ~PrevSuffices /\ BothSuffice)
    => /\ last.ret = LWMEM_GET_PTR_FROM_BLOCK(PrevFree)
       /\ last.ret \in live
       /\ last.ptr \notin live
       /\ LWMEM_BLOCK_IS_ALLOC(Machine, PrevFree)
       /\ IF UGe(Sub(BothLen, FinalSize(last.size)), LWMEM_BLOCK_MIN_SIZE)
          THEN /\ BlockLen(Machine, PrevFree) = FinalSize(last.size)
               /\ FreeWithin = { PrevFree + FinalSize(last.size) }
               /\ BlkSize(Machine, PrevFree + FinalSize(last.size))
                      = Sub(BothLen, FinalSize(last.size))
          ELSE /\ BlockLen(Machine, PrevFree) = BothLen
               /\ FreeWithin = {}

\* the block took both neighbours and gave a leftover block back
C11_Witness ==
    /\ DidGrow
    /\ BothSuffice
    /\ ~NextSuffices
    /\ ~PrevSuffices
    /\ last.branch = "grow_both"
    /\ UGe(Sub(BothLen, FinalSize(last.size)), LWMEM_BLOCK_MIN_SIZE)
    /\ PrevFree + FinalSize(last.size) \in Range(FreeList(Machine))

\* the free blocks that can serve the last call under its region pin
PinFitting ==
    IF last.pin = 0
    THEN Fitting(PreMachine, last.size, 0, MemBytes)
    ELSE Fitting(PreMachine, last.size, PinLo(last.pin), PinHi(last.pin))

\* the free block the old block belongs to once it is freed: from its free
\* predecessor, if that touches it, to the end of its free successor
HasPrevFree == FreeBelow # {} /\ Add(PrevFree, BlkSize(PreMachine, PrevFree)) = OldBlock
HasNextFree == OldEnd \in Range(FreeList(PreMachine)) /\ BlkSize(PreMachine, OldEnd) # 0
FreedLo == IF HasPrevFree THEN PrevFree ELSE OldBlock
FreedHi == IF HasNextFree THEN OldEnd + BlkSize(PreMachine, OldEnd) ELSE OldEnd

\* C12: only when no combination of adjacent free neighbours gives enough
\* room does realloc(p, n) take a fresh first-fit block q # p, under the
\* region pin; the old block is freed only after that allocation succeeded
\* and is then coalesced with its free neighbours, so the number of live
\* blocks stays the same.
C12_GrowByMoving ==
    DidGrow
    => IF NextSuffices THEN last.ret = last.ptr
       ELSE IF PrevSuffices \/ BothSuffice
       THEN last.ret = LWMEM_GET_PTR_FROM_BLOCK(PrevFree)
       ELSE /\ last.ret = FirstFit(PinFitting)
            /\ IF last.ret = NULL
               THEN mem = pre.mem /\ lw = pre.lw /\ live = pre.live
               ELSE /\ last.ret # last.ptr
                    /\ last.ret \in live
                    /\ last.ptr \notin live
                    /\ Cardinality(live) = Cardinality(pre.live)
                    /\ ~LWMEM_BLOCK_IS_ALLOC(Machine, OldBlock)
                    /\ FreedLo \in Range(FreeList(Machine))
                    /\ BlkSize(Machine, FreedLo) = FreedHi - FreedLo

\* a pinned realloc moved the block into the pinned region and the old
\* block joined its free successor
C12_Witness ==
    /\ DidGrow
    /\ last.branch = "move"
    /\ last.pin # 0
    /\ last.ret = FirstFit(PinFitting)
    /\ HasNextFree
    /\ BlkSize(Machine, FreedLo) > OldLen

\* the last call was free, realloc with size > 0 or get_size
DidPointerCall ==
    /\ Returned
    /\ \/ last.op \in {"free", "get_size"}
       \/ last.op = "realloc" /\ last.size # 0

\* the call wrote nothing and reported failure
NothingDone ==
    /\ mem = pre.mem
    /\ lw = pre.lw
    /\ live = pre.live
    /\ last.op = "realloc" => last.ret = NULL
    /\ last.op = "get_size" => last.ret = 0

\* C13 as stated: free, realloc (size > 0) and get_size called with a
\* pointer that is not a live allocation - NULL, one whose header fails the
\* test, one just freed - write nothing; realloc returns NULL and get_size
\* returns 0.
C13_NotLiveIsNoOp ==
    (DidPointerCall /\ last.ptr \notin pre.live) => NothingDone

\* C13: the same for free and get_size with NULL or a pointer that is not
\* live, and for realloc (size > 0) with a pointer other than NULL that is
\* not live; realloc(NULL, n) allocates.
C13_NotLiveIsNoOpButAlloc ==
    (/\ DidPointerCall
     /\ last.ptr \notin pre.live
     /\ last.op = "realloc" => last.ptr # NULL)
    => NothingDone

\* a block freed into its free predecessor is freed again, by free or by
\* realloc
C13_Witness ==
    /\ DidPointerCall
    /\ last.op \in {"free", "realloc"}
    /\ last.ptr # NULL
    /\ last.ptr \notin pre.live
    /\ BlkNext(PreMachine, LWMEM_GET_BLOCK_FROM_PTR(last.ptr)) = LWMEM_BLOCK_ALLOC_MARK
    /\ LWMEM_GET_BLOCK_FROM_PTR(last.ptr) \notin Range(FreeList(PreMachine))
    /\ NothingDone

\* the state after the last call is H
StateIs(H) == mem = H.mem /\ lw = H.lw

\* the last call returned what r returns and left the state r leaves
OutcomeIs(r) == last.ret = r.ret /\ StateIs(r.H)

\* C14: realloc(NULL, 0) returns NULL and neither allocates nor frees;
\* realloc(p, 0) with p live frees p exactly as free(p) does and returns
\* NULL; realloc(NULL, n) with n > 0 returns what malloc(n) with the same
\* region pin returns and has the same effect on the state.
C14_ReallocDegenerate ==
    Did("realloc")
    => /\ (last.ptr = NULL /\ last.size = 0)
            => last.ret = NULL /\ StateIs(PreMachine) /\ live = pre.live
       /\ (last.ptr \in pre.live /\ last.size = 0)
            => /\ last.ret = NULL
               /\ StateIs(lwmem_free_ex(PreMachine, last.ptr))
               /\ ~LWMEM_BLOCK_IS_ALLOC(Machine, LiveBlock(last.ptr))
               /\ live = pre.live \ {last.ptr}
       /\ (last.ptr = NULL /\ last.size # 0)
            => /\ OutcomeIs(lwmem_malloc_ex(PreMachine, PinArg(last.pin), last.size))
               /\ live = pre.live \cup ({last.ret} \ {NULL})

\* realloc(p, 0) gave a live block back to the free list
C14_Witness ==
    /\ Did("realloc")
    /\ last.ptr \in pre.live
    /\ last.size = 0
    /\ last.ret = NULL
    /\ lw.mem_available_bytes = pre.lw.mem_available_bytes + OldLen
    /\ ~LWMEM_BLOCK_IS_ALLOC(Machine, OldBlock)

\* nothing was allocated or freed by the last call
Untouched == StateIs(PreMachine) /\ live = pre.live

\* C15: lwmem_realloc_s_ex called with a non-NULL ptr where *ptr == NULL
\* and size == 0 returns 0, and no memory is allocated or freed.
C15_SafeReallocNothing ==
    (Did("realloc_s") /\ last.var # << >> /\ last.ptr = NULL /\ last.size = 0)
    => last.ret = 0 /\ Untouched

\* what lwmem_realloc_s_ex reports when the reallocation gives r
SafeOutcome(r) ==
    /\ StateIs(r.H)
    /\ IF r.ret = NULL
       THEN /\ last.ret = 0
            /\ last.var = << last.ptr >>
            /\ Untouched
            /\ last.ptr \in pre.live => LWMEM_BLOCK_IS_ALLOC(Machine, LiveBlock(last.ptr))
       ELSE /\ last.ret = 1
            /\ last.var = << r.ret >>
            /\ r.ret \in live
            /\ LWMEM_BLOCK_IS_ALLOC(Machine, LiveBlock(r.ret))
            /\ UGe(lwmem_get_size_ex(Machine, r.ret), last.size)

\* C16: lwmem_realloc_s_ex with size > 0 returns 0 and leaves *ptr as it
\* was when the reallocation fails, returns 1 with the new payload address
\* in *ptr when it succeeds, and returns 0 and touches nothing when ptr ==
\* NULL.
C16_SafeReallocResult ==
    (Did("realloc_s") /\ last.size # 0)
    => IF last.var = << >>
       THEN last.ret = 0 /\ Untouched
       ELSE SafeOutcome(lwmem_realloc_ex(PreMachine, PinArg(last.pin), last.ptr, last.size))

\* a safe realloc of a live block failed for want of room
C16_Witness ==
    /\ Did("realloc_s")
    /\ last.size # 0
    /\ last.ptr \in pre.live
    /\ last.ret = 0
    /\ last.var = << last.ptr >>
    /\ last.ptr \in live

\* C17: lwmem_free_s_ex(&p) with p live frees the block, available bytes
\* grow by the block size, and p becomes NULL; with ptr == NULL or *ptr ==
\* NULL neither the allocator state nor the caller's variable changes.
C17_SafeFree ==
    Did("free_s")
    => IF last.ptr \in pre.live
       THEN /\ last.var = << NULL >>
            /\ last.ptr \notin live
            /\ ~LWMEM_BLOCK_IS_ALLOC(Machine, OldBlock)
            /\ FreedLo \in Range(FreeList(Machine))
            /\ BlkSize(Machine, FreedLo) = FreedHi - FreedLo
            /\ lw.mem_available_bytes = Add(pre.lw.mem_available_bytes, OldLen)
       ELSE /\ last.ptr = NULL
            /\ Untouched
            /\ last.var \in { << >>, << NULL >> }

\* a safe free gave a live block back and cleared the caller's variable
C17_Witness ==
    /\ Did("free_s")
    /\ last.ptr \in pre.live
    /\ last.var = << NULL >>
    /\ lw.mem_available_bytes = pre.lw.mem_available_bytes + OldLen
    /\ OldLen # 0

\* the number of bytes the last call asked for, and the pointer it gave
Requested == IF last.op = "calloc" THEN Mul(last.size, last.nitems) ELSE last.size
Granted == IF last.op = "realloc_s" THEN VarPtr(last.var) ELSE last.ret

\* the last call allocated or resized a block
DidGrant ==
    /\ Returned
    /\ \/ last.op \in {"malloc", "calloc", "realloc"} /\ last.ret # NULL
       \/ last.op = "realloc_s" /\ last.ret = 1 /\ last.size # 0

\* the last call resized or released p
Resized(p) == last.op \in {"realloc", "realloc_s", "free", "free_s"} /\ last.ptr = p

\* the payload of p less the aligned request
Excess(p, n) == Sub(lwmem_get_size_ex(Machine, p), LWMEM_ALIGN(n))

Unservable(n) ==
    \/ FinalSize(n) = LWMEM_BLOCK_META_SIZE
    \/ Wraps(n)
    \/ HasAllocBit(FinalSize(n))

\* C19: for every request size in 0..2^w-1, malloc returns a non-NULL
\* pointer only if the returned block's payload is at least size bytes;
\* every request for which align_up(size) + M is zero-payload, wraps around
\* or has the alloc bit set returns NULL and leaves the state unchanged.
C19_MallocSizeLimits ==
    Did("malloc")
    => /\ last.ret # NULL => UGe(lwmem_get_size_ex(Machine, last.ret), last.size)
       /\ Unservable(last.size) => last.ret = NULL /\ Untouched

\* floor((2^32 - 1) / n) for 2 <= n < 2^31
MaxFactor(n) == 2 * (MaxInt \div n) + (2 * (MaxInt % n) + 1) \div n

\* nitems * size is not representable in size_t, for arguments below 2^31
Overflows(nitems, size) == nitems >= 2 /\ size > MaxFactor(nitems)

\* the n bytes at p are zero
ZeroBytes(p, n) == \A i \in 0..(n - 1) : ByteAt(mem, p + i) = 0

\* C20: calloc(nitems, size) returns NULL and changes no state whenever
\* nitems * size is not representable in size_t; on success the payload
\* holds at least nitems * size bytes and all of them are zero.
C20_CallocProduct ==
    Did("calloc")
    => IF Overflows(last.nitems, last.size)
       THEN last.ret = NULL /\ Untouched
       ELSE last.ret # NULL
                => /\ UGe(lwmem_get_size_ex(Machine, last.ret), Mul(last.size, last.nitems))
                   /\ ZeroBytes(last.ret, Mul(last.size, last.nitems))

\* the block the last allocation handed out, and its size on the free list
Chosen == LiveBlock(last.ret)
ChosenLen == BlkSize(PreMachine, Chosen)

\* by how much the last call lowered, or raised, mem_available_bytes
Lowered == Sub(pre.lw.mem_available_bytes, lw.mem_available_bytes)
Raised == Sub(lw.mem_available_bytes, pre.lw.mem_available_bytes)

\* C21: a successful malloc(n) lowers mem_available_bytes by the size of the
\* block handed out, get_size(p) + M: by align_up(n) + M when the chosen free
\* block exceeds that by at least M, and then the rest is a free block behind
\* it, by the whole chosen block otherwise; free(p) of a live p raises
\* mem_available_bytes by get_size(p) + M.
C21_AvailableFollowsBlock ==
    /\ (Did("malloc") /\ last.ret # NULL)
         => /\ Lowered = Add(lwmem_get_size_ex(Machine, last.ret), LWMEM_BLOCK_META_SIZE)
            /\ IF UGe(Sub(ChosenLen, FinalSize(last.size)), LWMEM_BLOCK_MIN_SIZE)
               THEN /\ Lowered = FinalSize(last.size)
                    /\ Chosen + Lowered \in Range(FreeList(Machine))
                    /\ BlkSize(Machine, Chosen + Lowered) = Sub(ChosenLen, Lowered)
               ELSE Lowered = ChosenLen
    /\ (Did("free") /\ last.ptr \in pre.live)
         => Raised = Add(lwmem_get_size_ex(PreMachine, last.ptr), LWMEM_BLOCK_META_SIZE)

\* C22: assign-memory on an instance that is already assembled returns 0 and
\* leaves the region chain, the free list, the live allocations,
\* mem_available_bytes and mem_regions_count as they were, whatever list is
\* passed and whatever calls were made before.
C22_AssignOnce ==
    (Did("assignmem") /\ InUse(PreMachine)) => last.ret = 0 /\ Untouched

\* the two regions are passed again while blocks are allocated
C22_Witness ==
    /\ Did("assignmem")
    /\ Assembled(PreMachine)
    /\ last.regions = RegionsMain
    /\ live # {}
    /\ last.ret = 0

\* the entries of a region array before its terminator
Entries(regions) ==
    IF regions = << >> THEN << >> ELSE SubSeq(regions, 1, Len(regions) - 1)

\* some entry starts below the end of the entry before it
OutOfOrder(regions) ==
    \E i \in 2..Len(Entries(regions)) :
        regions[i].start_addr < regions[i - 1].start_addr + regions[i - 1].size

\* the arrays assign-memory is to refuse
BadList(regions) ==
    \/ regions = << >>
    \/ regions = << Terminator >>
    \/ OutOfOrder(regions)
    \/ ~cfg.full /\ Len(Entries(regions)) > 1

\* region normalisation as the specification words it: the base advanced to
\* the next multiple of A, the size less the advance rounded down to a
\* multiple of A; usable with at least 2M bytes inside the raw extent
Advance(r) ==
    (LWMEM_CFG_ALIGN_NUM - (r.start_addr % LWMEM_CFG_ALIGN_NUM)) % LWMEM_CFG_ALIGN_NUM
NormBase(r) == Add(r.start_addr, Advance(r))
NormSize(r) == AlignDown(Sub(r.size, Advance(r)))
Contained(r) == ULe(Advance(r), r.size)
Usable(r) == UGe(NormSize(r), 2 * LWMEM_BLOCK_META_SIZE) /\ Contained(r)

\* an array in ascending order without overlap, every region of it usable,
\* of one region in the light build
ValidList(regions) ==
    /\ Len(Entries(regions)) > 0
    /\ ~BadList(regions)
    /\ \A i \in DOMAIN Entries(regions) : Usable(regions[i])

\* C23: assign-memory returns 0 and leaves the instance unassembled and
\* untouched when the region list is NULL, is empty, has a region that
\* starts below the end of the one before it or, in the light build, has
\* more than one region; on an instance that is still as constructed,
\* assign-memory with a valid list succeeds.
C23_BadListRefused ==
    (Did("assignmem") /\ ~InUse(PreMachine))
    => /\ BadList(last.regions) => last.ret = 0 /\ Untouched /\ ~InUse(Machine)
       /\ (ValidList(last.regions) /\ pre.lw = ZeroInstance /\ last.created)
            => last.ret # 0 /\ InUse(Machine)

\* the light build takes one region after its first call was refused
C23_Witness ==
    /\ Did("assignmem")
    /\ ~cfg.full
    /\ ~cfg.os
    /\ calls = 2
    /\ ValidList(last.regions)
    /\ last.ret = 1

\* the usable regions of an array, in its order
UsableOf(regions) == SelectSeq(Entries(regions), Usable)

FirstBlockOf(r) == NormBase(r)
FirstSizeOf(r) == Sub(NormSize(r), LWMEM_BLOCK_META_SIZE)
EndMarkerOf(r) == Add(NormBase(r), FirstSizeOf(r))

RECURSIVE SumFirst(_, _)
SumFirst(U, i) == IF i > Len(U) THEN 0 ELSE Add(FirstSizeOf(U[i]), SumFirst(U, i + 1))

\* the words of the headers assembly writes for the regions U
HeaderWords(U) ==
    UNION { { FirstBlockOf(U[i]) \div PtrBytes, FirstBlockOf(U[i]) \div PtrBytes + 1,
              EndMarkerOf(U[i]) \div PtrBytes, EndMarkerOf(U[i]) \div PtrBytes + 1 } :
            i \in DOMAIN U }

\* the state assembly is to build from the usable regions U
Built(U) ==
    /\ last.ret = Len(U)
    /\ lw.start_block.next = FirstBlockOf(U[1])
    /\ \A i \in DOMAIN U :
          /\ BlkSize(Machine, FirstBlockOf(U[i])) = FirstSizeOf(U[i])
          /\ BlkNext(Machine, FirstBlockOf(U[i])) = EndMarkerOf(U[i])
          /\ BlkSize(Machine, EndMarkerOf(U[i])) = 0
          /\ BlkNext(Machine, EndMarkerOf(U[i]))
                = IF i < Len(U) THEN FirstBlockOf(U[i + 1]) ELSE NULL
    /\ lw.mem_available_bytes = SumFirst(U, 1)
    /\ \A w \in DOMAIN mem : w \notin HeaderWords(U) => mem[w] = pre.mem[w]

\* C24: a successful full-mode assign-memory returns the number of usable
\* regions of the list and builds exactly this: per usable region, in list
\* order, a free first block at the normalised base of size (normalised
\* size - M) whose next is the region's end marker of size 0 at base +
\* normalised size - M; each end marker's next is the first block of the
\* following region, NULL for the last; the start block's next is the first
\* region's first block; mem_available_bytes is the sum of the first-block
\* sizes.
C24_AssemblyBuilds ==
    (Did("assignmem") /\ cfg.full /\ last.ret # 0)
    => Len(UsableOf(last.regions)) > 0 /\ Built(UsableOf(last.regions))

\* the last call was a full-mode assign-memory that came to normalise the
\* regions of its list
Normalising ==
    /\ last.op = "assignmem"
    /\ cfg.full
    /\ ~InUse(PreMachine)
    /\ ~BadList(last.regions)
    /\ cfg.os => last.created /\ ~pre.lw.mutex.valid

\* what prv_get_region_addr_size reports for r is r's normalisation
Normalised(r, n) ==
    /\ n.ok = 1
         => /\ n.msa = NormBase(r)
            /\ n.msz = NormSize(r)
            /\ Usable(r)
    /\ (ULt(r.size, Advance(r)) \/ ULt(r.size, 2 * LWMEM_BLOCK_META_SIZE)) => n.ok = 0

\* C25: region normalisation, modulo 2^w: base' is base rounded up to a
\* multiple of A, size' is (size - (base' - base)) rounded down to a
\* multiple of A; the region is reported usable only if size' >= 2M and
\* [base', base' + size') lies inside [base, base + size); a region whose raw
\* size is below the alignment advance or below 2M is skipped.
C25_RegionNormalised ==
    Normalising
    => \A i \in DOMAIN Entries(last.regions) :
           Normalised(last.regions[i], prv_get_region_addr_size(last.regions[i]))

\* C26: with the OS guard, an assign-memory call that returns 0 on an
\* unassembled instance - mutex creation failed, or no region of the list is
\* usable - leaves the instance as it was: unassembled and without a mutex;
\* a later assign-memory with a valid list succeeds.
C26_FailedAssignLeavesNothing ==
    (Did("assignmem") /\ cfg.os /\ ~InUse(PreMachine))
    => /\ last.ret = 0 => Untouched /\ ~InUse(Machine) /\ ~lw.mutex.valid
       /\ (ValidList(last.regions) /\ last.created) => last.ret # 0

\* the low-water mark of an instance, and the smaller of two byte counts
MinEver(l) == l.stats.minimum_ever_mem_available_bytes
UMin(a, b) == IF ULt(a, b) THEN a ELSE b

\* the last call was a realloc that grew the block into free space beside it
GrewInPlace ==
    Did("realloc") /\ last.branch \in {"grow_next", "grow_prev", "grow_both"}

\* the last call was a realloc that made the block no larger
Shrank ==
    Did("realloc") /\ last.branch \in {"same", "shrink_split", "shrink_next", "shrink_keep"}

\* C27: with statistics enabled, after every successful malloc or calloc and
\* after every realloc that grows into adjacent free space,
\* minimum_ever_mem_available_bytes is the smaller of its value before the
\* call and mem_available_bytes after the call; free and a shrinking realloc
\* leave it unchanged.
C27_LowWaterMark ==
    cfg.stats
    => /\ ((Did("malloc") \/ Did("calloc")) /\ last.ret # NULL)
            => MinEver(lw) = UMin(MinEver(pre.lw), lw.mem_available_bytes)
       /\ GrewInPlace => MinEver(lw) = UMin(MinEver(pre.lw), lw.mem_available_bytes)
       /\ (Did("free") \/ Shrank) => MinEver(lw) = MinEver(pre.lw)

\* thread t is between LWMEM_PROTECT and LWMEM_UNPROTECT
InSection(t) == thr[t].pc \in {"in", "unlock"}

\* thread t has the result of its call
HasResult(t) == thr[t].pc \in {"unlock", "clear", "out"}

\* no call is under way, and at least one was made
Quiet == serial # NoPre /\ \A t \in Threads : thr[t].pc = "idle"

\* the blocks the threads hold: no pointer is held twice, no two blocks share
\* a byte, none shares a byte with a block of the free list
OwnedApart ==
    \A t \in Threads, u \in Threads :
        \A p \in thr[t].own, q \in thr[u].own :
            /\ (t # u \/ p # q) =>
                   BlockBytes(Machine, LiveBlock(p)) \cap BlockBytes(Machine, LiveBlock(q)) = {}
            /\ \A f \in Range(FreeList(Machine)) :
                   BlockBytes(Machine, LiveBlock(p)) \cap ListedBytes(Machine, f) = {}

\* C28: with the OS guard, in every interleaving of malloc, calloc, realloc,
\* free, get_size and get_stats calls of the threads on one assembled
\* instance, at most one thread is between mutex acquire and release; every
\* call returns what it returns when the calls run one after another in the
\* order in which they got the mutex, and once all calls have returned the
\* instance and the memory are those of that run; the blocks the threads hold
\* never overlap and mem_available_bytes is the sum of the free list.
C28_CallsSerialise ==
    lw.end_block # NULL =>
        /\ Cardinality({ t \in Threads : InSection(t) }) <= 1
        /\ \A t \in Threads : HasResult(t) => thr[t].call.ret = thr[t].sret
        /\ Quiet => serial.mem = mem /\ serial.lw = lw
        /\ OwnedApart
        /\ lw.mem_available_bytes = FreeBytes(Machine)


Target(in) == IF in = NULL THEN lwmem_default ELSE lw_custom

\* this step is a malloc, calloc, realloc, free or get_size call
CallStep ==
    /\ last = NoCall
    /\ last'.op \in {"malloc", "calloc", "realloc", "free", "get_size"}

\* this step leaves the words of the regions alone
RegionsKept(regions) ==
    \A i \in DOMAIN Entries(regions) :
        \A w \in DOMAIN mem :
            (w + 1) * PtrBytes > regions[i].start_addr
                /\ w * PtrBytes < regions[i].start_addr + regions[i].size
            => mem'[w] = mem[w]

\* this step allocated from the control block that was old and is now new
TookFrom(old, new) ==
    Allocates(last') /\ last'.ret # NULL
        => new.mem_available_bytes # old.mem_available_bytes

ConfigsSimple == [clean : {FALSE}, stats : {FALSE}, os : {FALSE}, full : {FALSE}]

\* single regions at aligned and unaligned bases: smaller than the alignment
\* advance, small, and of 64 usable bytes; a list of two regions; NULL
SimpleBases == {8, 10, 13}
SimpleSizes == {1, 16, 64, 67}
SimpleLists ==
    { << >>, RegionsMain }
    \cup { << Region(a, n), Terminator >> : a \in SimpleBases, n \in SimpleSizes }

\* request sizes: zero, below and at the alignment, half the region, and two
\* near 2^32 of which the first rounds up to 0
SimpleReqs == {0, 1, 4, 32, -3, -4}
SimpleCallocArgs == { <<2, 16>>, <<3, 1>> }

Grant(ptr, n) == [ptr |-> ptr, size |-> LWMEM_ALIGN(n), nth |-> calls]

SimpleReturn(r, op, nitems, size, n) ==
    Effect(TRUE, r.H, r.ret, "done",
           IF r.ret # NULL THEN live \cup {Grant(r.ret, n)} ELSE live,
           op, 0, NULL, nitems, size)

SimpleMalloc(size) ==
    /\ Idle
    /\ Cardinality(live) < MaxLive
    /\ SimpleReturn(lwmem_malloc_ex(Machine, << >>, size), "malloc", 0, size, size)
    /\ UNCHANGED regs

SimpleCalloc(nitems, size) ==
    /\ Idle
    /\ Cardinality(live) < MaxLive
    /\ SimpleReturn(lwmem_calloc_ex(Machine, << >>, nitems, size),
                    "calloc", nitems, size, Mul(size, nitems))
    /\ UNCHANGED regs

NextSimple ==
    \/ \E regions \in SimpleLists : Assignmem(regions, TRUE)
    \/ \E size \in SimpleReqs : SimpleMalloc(size)
    \/ \E a \in SimpleCallocArgs : SimpleCalloc(a[1], a[2])
    \/ Continue

SpecSimple == Construct(ConfigsSimple) /\ [][NextSimple]_vars


\* a + n does not pass the end of the address space
NoWrap(a, n) == UGe(Add(a, n), a)

\* the byte range [a, a + n) ends at or below b
Below(a, n, b) == NoWrap(a, n) /\ ULe(Add(a, n), b)

\* the half-open byte ranges [a, a + n) and [b, b + m) do not meet
Apart(a, n, b, m) == Below(a, n, b) \/ Below(b, m, a)

RECURSIVE SumGranted(_)
SumGranted(S) ==
    IF S = {} THEN 0
    ELSE LET a == CHOOSE x \in S : TRUE IN Add(a.size, SumGranted(S \ {a}))

\* C31: light build, after a region was accepted: the pointers granted are
\* aligned and strictly increasing in call order, the ranges
\* [p, p + align_up(n)) are pairwise disjoint and inside the raw region,
\* mem_available_bytes plus the sum of align_up(n) over the successful calls
\* is the normalised region size, and a call fails exactly when align_up(n)
\* exceeds mem_available_bytes
C31_SimpleGrowsOnly ==
    (~cfg.full /\ ~fault /\ lw.is_initialized # 0)
    => /\ \A a \in live : a.ptr % LWMEM_CFG_ALIGN_NUM = 0
       /\ \A a, b \in live : a.nth < b.nth => ULt(a.ptr, b.ptr)
       /\ \A a, b \in live : a # b => Apart(a.ptr, a.size, b.ptr, b.size)
       /\ \A a \in live :
              /\ ULe(regs[1].start_addr, a.ptr)
              /\ Below(a.ptr, a.size, Add(regs[1].start_addr, regs[1].size))
       /\ Add(lw.mem_available_bytes, SumGranted(live)) = SimpleSize(regs[1])
       /\ last.op \in {"malloc", "calloc"}
              => (last.ret = NULL
                      <=> UGt(LWMEM_ALIGN(Requested), pre.lw.mem_available_bytes))

\* C32: light build: malloc with size 0, with a size whose round-up to the
\* alignment wraps modulo 2^SizeBits, or on an instance that was never
\* assembled returns NULL and leaves mem_available_bytes and the
\* next-available pointer as they were
C32_SimpleRejects ==
    (/\ ~cfg.full
     /\ ~fault
     /\ last.op = "malloc"
     /\ \/ last.size = 0
        \/ ULt(LWMEM_ALIGN(last.size), last.size)
        \/ pre.lw.is_initialized = 0)
    => /\ last.ret = NULL
       /\ lw.mem_available_bytes = pre.lw.mem_available_bytes
       /\ lw.mem_next_available_ptr = pre.lw.mem_next_available_ptr

ConfigsPair == [clean : {TRUE}, stats : {FALSE}, os : {FALSE}, full : {TRUE}]

PairSizes == {1, 12, 24}

Second == [mem |-> serial.mem, lw |-> serial.lw, cfg |-> cfg, oob |-> FALSE]

\* the application fills the block at ptr, as many bytes as lwmem_get_size
\* reports for it
AppStore(H, ptr, seed) ==
    LET nb(x) == Pattern(seed, x - ptr)
    IN  StoreBytes(H, ptr, lwmem_get_size_ex(H, ptr), nb)

PairCalls ==
    { Call("malloc", 0, NULL, 0, size, NULL, "none") : size \in PairSizes }
    \cup { Call("calloc", 0, NULL, a[1], a[2], NULL, "none") : a \in OsCallocArgs }
    \cup { Call("realloc", 0, ptr, 0, size, NULL, "none") :
               ptr \in live, size \in {0} \cup PairSizes }
    \cup { Call("free", 0, ptr, 0, 0, NULL, "none") : ptr \in live }
    \cup { Call("write", 0, ptr, 0, 0, NULL, "none") : ptr \in live }

PairRun(H, c, seed) ==
    IF c.op = "write" THEN [H |-> AppStore(H, c.ptr, seed), ret |-> NULL]
    ELSE Whole(H, c)

\* the addresses at which two memories differ
Differ(m1, m2) == { x \in 0..(MemBytes - 1) : ByteAt(m1, x) # ByteAt(m2, x) }

PairReturn(c, r1, r2) ==
    /\ pre' = [mem |-> mem, lw |-> lw, live |-> live]
    /\ calls' = calls + 1
    /\ mem' = r1.H.mem
    /\ lw' = r1.H.lw
    /\ live' = Holds(live, c, r1.ret)
    /\ last' = [c EXCEPT !.ret = r1.ret]
    /\ fault' = FALSE
    /\ serial' = [mem |-> r2.H.mem, lw |-> r2.H.lw, ret |-> r2.ret,
                  dirty |-> serial.dirty \cup Differ(r1.H.mem, r2.H.mem)]
    /\ UNCHANGED <<cfg, regs, thr, lwobj, other>>

PairFault(c) ==
    /\ pre' = [mem |-> mem, lw |-> lw, live |-> live]
    /\ calls' = calls + 1
    /\ last' = [c EXCEPT !.branch = "fault"]
    /\ fault' = TRUE
    /\ UNCHANGED <<mem, lw, cfg, regs, live, thr, lwobj, other, serial>>

PairCall(c) ==
    /\ Idle
    /\ lw.end_block # NULL
    /\ Allocates(c) => Cardinality(live) < MaxLive
    /\ IF DefinedCall(Machine, c) /\ DefinedCall(Second, c)
       THEN \E r1 \in { PairRun(Machine, c, 0) }, r2 \in { PairRun(Second, c, 1) } :
                IF r1.H.oob \/ r2.H.oob THEN PairFault(c) ELSE PairReturn(c, r1, r2)
       ELSE PairFault(c)

\* both runs assemble the same regions
PairAssembleReturn(regions, r) ==
    /\ pre' = [mem |-> mem, lw |-> lw, live |-> live]
    /\ calls' = calls + 1
    /\ mem' = r.H.mem
    /\ lw' = r.H.lw
    /\ regs' = regions
    /\ last' = CallList(Call("assignmem", 0, NULL, 0, 0, r.ret, "done"), regions, TRUE)
    /\ serial' = [mem |-> r.H.mem, lw |-> r.H.lw, ret |-> r.ret, dirty |-> {}]
    /\ UNCHANGED <<cfg, live, fault, thr, lwobj, other>>

PairAssemble(regions) ==
    /\ Idle
    /\ lw.end_block = NULL
    /\ PairAssembleReturn(regions, lwmem_assignmem_ex(Machine, regions, TRUE))

NextPair ==
    \/ PairAssemble(RegionsTall)
    \/ \E c \in PairCalls : PairCall(c)
    \/ Continue

SpecPair == Construct(ConfigsPair) /\ [][NextPair]_vars

\* the last call gave back the block at last.ptr or a part of it
Gave ==
    /\ Returned
    /\ cfg.clean
    /\ last.op \in {"free", "realloc"}
    /\ last.ptr \in pre.live
    /\ (last.op = "realloc" /\ last.size # 0) => last.ret # NULL

\* the end of the block the last call returned
NewHi == LiveBlock(last.ret) + BlockLen(Machine, LiveBlock(last.ret))

\* the bytes of the old payload that the caller holds no more
Released ==
    { x \in last.ptr..(OldEnd - 1) :
        ~(last.op = "realloc" /\ last.ret # NULL /\ x >= last.ret /\ x < NewHi) }

\* x lies in the header of a block on the free list
InFreeHeader(x) ==
    \E b \in Range(FreeList(Machine)) : x >= b /\ x < b + LWMEM_BLOCK_META_SIZE

\* the last call handed out a block
Got ==
    /\ Returned
    /\ cfg.clean
    /\ last.op \in {"malloc", "calloc", "realloc"}
    /\ last.ret # NULL

\* the bytes of the block handed out that the caller did not hold before the
\* call and that are not the data realloc carried over
NewBytes ==
    { x \in last.ret..(NewHi - 1) :
        ~(/\ last.op = "realloc"
          /\ \/ x < last.ret + (OldLen - LWMEM_BLOCK_META_SIZE)
             \/ x >= last.ptr /\ x < OldEnd) }

\* both runs were given the same block with the same contents
SameInBoth ==
    /\ serial.ret = last.ret
    /\ \A x \in NewBytes : ByteAt(mem, x) = ByteAt(serial.mem, x)

Markers == { e.end : e \in Extents }

\* the addresses of seq ascend strictly
Ascends(seq) == \A i \in 1..(Len(seq) - 1) : ULt(seq[i], seq[i + 1])

\* C35: after every public operation the free list, followed from the start
\* block, is strictly ascending by address and acyclic, passes through the
\* end marker of every linked region, in region order, and ends with the
\* NULL next of the last region's end marker; no allocated block is on it
C35_FreeListShape ==
    (cfg.full /\ ~fault /\ Assembled(Machine))
    => /\ Ascends(FreeList(Machine))
       /\ Len(FreeList(Machine)) < WalkFuel
       /\ Markers \subseteq Range(FreeList(Machine))
       /\ FreeList(Machine)[Len(FreeList(Machine))] = SetMax(Markers)
       /\ lw.end_block = SetMax(Markers)
       /\ BlkNext(Machine, lw.end_block) = NULL
       /\ \A b \in Range(FreeList(Machine)) :
              /\ ~LWMEM_BLOCK_IS_ALLOC(Machine, b)
              /\ ~HasAllocBit(BlkSize(Machine, b))
       /\ \A p \in live : LiveBlock(p) \notin Range(FreeList(Machine))

\* the free blocks of H: the listed blocks that are no end marker
FreeBlocks(H) == { b \in Range(FreeList(H)) : BlkSize(H, b) # 0 }

\* the free blocks that ended where the block of last.ptr started, before
\* the call
FreeBefore == { b \in FreeBlocks(PreMachine) : b + BlkSize(PreMachine, b) = OldBlock }

\* free(p) was called on a live p that lay between two free blocks
FreedBetween ==
    /\ Did("free")
    /\ last.ptr \in pre.live
    /\ FreeBefore # {}
    /\ OldEnd \in FreeBlocks(PreMachine)

\* C36: after every public operation no free block is immediately followed
\* in memory by another free block of the same region; freeing a block that
\* lies between two free neighbours leaves one free block at the address of
\* the first, of size prev.size + p.size + succ.size
C36_FreeBlocksCoalesced ==
    (cfg.full /\ ~fault /\ Assembled(Machine))
    => /\ \A b \in FreeBlocks(Machine) :
              b + BlkSize(Machine, b) \notin FreeBlocks(Machine)
       /\ FreedBetween
              => \A b \in FreeBefore :
                     /\ b \in FreeBlocks(Machine)
                     /\ BlkSize(Machine, b)
                            = BlkSize(PreMachine, b) + OldLen + BlkSize(PreMachine, OldEnd)
                     /\ OldBlock \notin FreeBlocks(Machine)
                     /\ OldEnd \notin FreeBlocks(Machine)

\* sum of the sizes, alloc bit masked, of the blocks of the pointers in S
RECURSIVE LiveBytes(_, _)
LiveBytes(H, S) ==
    IF S = {} THEN 0
    ELSE LET p == CHOOSE x \in S : TRUE
         IN  Add(BlockLen(H, LiveBlock(p)), LiveBytes(H, S \ {p}))

\* C37: conservation of bytes: after every public operation
\* mem_available_bytes plus the sizes, alloc bit masked, of the live
\* allocated blocks is the sum of the first-block sizes established at
\* assembly
C37_BytesConserved ==
    (cfg.full /\ ~fault /\ Assembled(Machine))
    => Add(lw.mem_available_bytes, LiveBytes(Machine, live))
           = PostAssembly.lw.mem_available_bytes

\* C38: after every public operation every block on the free list has the
\* alloc bit clear in its size, and every live allocated block has the alloc
\* bit set and next equal to the allocated mark
C38_AllocBitTellsApart ==
    (cfg.full /\ ~fault /\ Assembled(Machine))
    => /\ \A b \in Range(FreeList(Machine)) : ~HasAllocBit(BlkSize(Machine, b))
       /\ \A p \in live :
              /\ HasAllocBit(BlkSize(Machine, LiveBlock(p)))
              /\ BlkNext(Machine, LiveBlock(p)) = LWMEM_BLOCK_ALLOC_MARK

\* the bytes of the end marker at e
MarkerBytes(e) == e..(e + LWMEM_BLOCK_META_SIZE - 1)

\* C39: end markers are permanent: after any sequence of operations every
\* linked region's end marker is at its assembly address with size 0 and on
\* the free list, and no free block and no allocated block extends over an
\* end marker or spans two regions
C39_EndMarkersStay ==
    (cfg.full /\ ~fault /\ Assembled(Machine))
    => /\ \A e \in Markers :
              /\ e \in Range(FreeList(Machine))
              /\ BlkSize(Machine, e) = 0
       /\ \A b \in FreeBlocks(Machine) : InsideRegion(Machine, b)
       /\ \A p \in live : InsideRegion(Machine, LiveBlock(p))
       /\ \A e \in Markers :
              /\ \A b \in FreeBlocks(Machine) :
                     BlockBytes(Machine, b) \cap MarkerBytes(e) = {}
              /\ \A p \in live :
                     BlockBytes(Machine, LiveBlock(p)) \cap MarkerBytes(e) = {}

\* LWMEM_MEMMOVE(new_data_ptr, old_data_ptr, block_size) of the grow-prev and
\* grow-both branches: the bytes it reads and the bytes it writes
MovedFrom(block, block_size) ==
    { x \in 0..(MemBytes + LWMEM_BLOCK_META_SIZE) :
        /\ x >= LWMEM_GET_PTR_FROM_BLOCK(block)
        /\ x < LWMEM_GET_PTR_FROM_BLOCK(block) + block_size }
MovedTo(prev, block_size) ==
    { x \in 0..(MemBytes + LWMEM_BLOCK_META_SIZE) :
        /\ x >= LWMEM_GET_PTR_FROM_BLOCK(prev)
        /\ x < LWMEM_GET_PTR_FROM_BLOCK(prev) + block_size }

\* the last call was a realloc that moved the payload down to the free block
\* before it
MovedDown == DidGrow /\ last.branch \in {"grow_prev", "grow_both"}

\* C40: in the realloc branches that move the payload down to a preceding
\* free block the move copies exactly the old payload: it reads no byte at or
\* beyond block + block_size and writes no byte at or beyond
\* prev + block_size, so the bytes of the new block from prev + block_size up
\* to its requested end are as they were before the call
C40_MoveCopiesPayload ==
    MovedDown
    => /\ \A x \in MovedFrom(OldBlock, OldLen) : x < OldBlock + OldLen
       /\ \A x \in MovedTo(LiveBlock(last.ret), OldLen) :
              x < LiveBlock(last.ret) + OldLen
       /\ \A x \in (LiveBlock(last.ret) + OldLen)
                       ..(LiveBlock(last.ret) + FinalSize(last.size) - 1) :
              ByteAt(mem, x) = ByteAt(pre.mem, x)

=============================================================================
